---- MODULE Spec2Model ----
(***************************************************************************)
(* A model of the CAS engine of Math-App (src/js/casEngine.py).            *)
(*                                                                         *)
(* The session is the three module-level tables _variables, _functions     *)
(* and _symbols_cache.  One action models one call of a public entry       *)
(* point: cas_evaluate(raw_latex), cas_clear(), cas_get_state().           *)
(*                                                                         *)
(* Input text is a sequence of one-character strings.  The text pipeline   *)
(* (_preprocess_latex, the dispatch regular expressions of _eval_inner,    *)
(* _parse_inner, _latex_to_algebra and the algebraic surface parser) is    *)
(* modelled on characters.  SymPy, a library, is modelled by what the      *)
(* engine relies on: expression trees with free symbols and substitution,  *)
(* and simplify & the calculus operations on polynomials with rational     *)
(* coefficients.  latex() and pretty() are injective renderings of the     *)
(* canonical value and are kept as tagged values <<"latex", v>> and        *)
(* <<"plain", v>>.                                                         *)
(***************************************************************************)
EXTENDS Integers, Sequences, FiniteSets, TLC

VARIABLES
    variables,      \* _variables: name -> [expr, deps]
    functions,      \* _functions: name -> [params, expr, deps]
    symbols_cache,  \* _symbols_cache: the set of names with a cached Symbol
    call,           \* the last public call: [op, input]
    result          \* the JSON record the last call returned

vars == <<variables, functions, symbols_cache, call, result>>

(***************************************************************************)
(* Characters and strings                                                  *)
(***************************************************************************)
LowerLetters ==
    {"a","b","c","d","e","f","g","h","i","j","k","l","m",
     "n","o","p","q","r","s","t","u","v","w","x","y","z"}

UpperLetters ==
    {"A","B","C","D","E","F","G","H","I","J","K","L","M",
     "N","O","P","Q","R","S","T","U","V","W","X","Y","Z"}

Letters == LowerLetters \cup UpperLetters

Digits == {"0","1","2","3","4","5","6","7","8","9"}

WordChars == Letters \cup Digits \cup {"_"}

IsSpace(c) == c \in {" ", "\t", "\n"}

BSL == "\\"

\* Python str.lower() on one character
Lower(c) ==
    CASE c = "A" -> "a" [] c = "B" -> "b" [] c = "C" -> "c" [] c = "D" -> "d"
      [] c = "E" -> "e" [] c = "F" -> "f" [] c = "G" -> "g" [] c = "H" -> "h"
      [] c = "I" -> "i" [] c = "J" -> "j" [] c = "K" -> "k" [] c = "L" -> "l"
      [] c = "M" -> "m" [] c = "N" -> "n" [] c = "O" -> "o" [] c = "P" -> "p"
      [] c = "Q" -> "q" [] c = "R" -> "r" [] c = "S" -> "s" [] c = "T" -> "t"
      [] c = "U" -> "u" [] c = "V" -> "v" [] c = "W" -> "w" [] c = "X" -> "x"
      [] c = "Y" -> "y" [] c = "Z" -> "z" [] OTHER -> c

LowerStr(s) == [k \in 1..Len(s) |-> Lower(s[k])]

DigitVal(c) ==
    CASE c = "0" -> 0 [] c = "1" -> 1 [] c = "2" -> 2 [] c = "3" -> 3
      [] c = "4" -> 4 [] c = "5" -> 5 [] c = "6" -> 6 [] c = "7" -> 7
      [] c = "8" -> 8 [] c = "9" -> 9

RECURSIVE LStrip(_)
LStrip(s) == IF s # <<>> /\ IsSpace(Head(s)) THEN LStrip(Tail(s)) ELSE s

RECURSIVE RStrip(_)
RStrip(s) ==
    IF s # <<>> /\ IsSpace(s[Len(s)]) THEN RStrip(SubSeq(s, 1, Len(s) - 1)) ELSE s

\* str.strip()
Strip(s) == RStrip(LStrip(s))

\* s[i:] with a 1-based i
From(s, i) == SubSeq(s, i, Len(s))

\* s.startswith(p, i-1)
HasAt(s, i, p) == i >= 1 /\ i + Len(p) - 1 <= Len(s) /\ SubSeq(s, i, i + Len(p) - 1) = p

RECURSIVE ReplaceFrom(_, _, _, _)
ReplaceFrom(s, i, p, r) ==
    IF i > Len(s) THEN <<>>
    ELSE IF HasAt(s, i, p) THEN r \o ReplaceFrom(s, i + Len(p), p, r)
    ELSE <<s[i]>> \o ReplaceFrom(s, i + 1, p, r)

\* str.replace(p, r): leftmost, non-overlapping
Replace(s, p, r) == ReplaceFrom(s, 1, p, r)

\* the least index >= i with s[index] = c, or 0
RECURSIVE IndexFrom(_, _, _)
IndexFrom(s, i, c) ==
    IF i > Len(s) THEN 0 ELSE IF s[i] = c THEN i ELSE IndexFrom(s, i + 1, c)

\* the greatest index with s[index] = c, or 0
RECURSIVE LastIndexUpTo(_, _, _)
LastIndexUpTo(s, i, c) ==
    IF i < 1 THEN 0 ELSE IF s[i] = c THEN i ELSE LastIndexUpTo(s, i - 1, c)

\* the first index >= i that holds no whitespace (Len(s)+1 when there is none)
RECURSIVE SkipSpaces(_, _)
SkipSpaces(s, i) ==
    IF i <= Len(s) /\ IsSpace(s[i]) THEN SkipSpaces(s, i + 1) ELSE i

\* the first index >= i that holds no word character: the end of \w*
RECURSIVE SkipWord(_, _)
SkipWord(s, i) ==
    IF i <= Len(s) /\ s[i] \in WordChars THEN SkipWord(s, i + 1) ELSE i

\* the first index >= i that holds no letter: the end of [a-zA-Z]*
RECURSIVE SkipLetters(_, _)
SkipLetters(s, i) ==
    IF i <= Len(s) /\ s[i] \in Letters THEN SkipLetters(s, i + 1) ELSE i

\* re.search(r'\\[a-zA-Z]', s)
HasLatexCommand(s) ==
    \E k \in 1..(Len(s) - 1) : s[k] = BSL /\ s[k + 1] \in Letters

\* re.sub(r'\\([a-zA-Z]+)', r'\1', s)
RECURSIVE StripBackslashesFrom(_, _)
StripBackslashesFrom(s, i) ==
    IF i > Len(s) THEN <<>>
    ELSE IF s[i] = BSL /\ i < Len(s) /\ s[i + 1] \in Letters
         THEN LET j == SkipLetters(s, i + 1)
              IN  SubSeq(s, i + 1, j - 1) \o StripBackslashesFrom(s, j)
         ELSE <<s[i]>> \o StripBackslashesFrom(s, i + 1)

StripBackslashes(s) == StripBackslashesFrom(s, 1)

(***************************************************************************)
(* _preprocess_latex                                                       *)
(***************************************************************************)
C_left         == <<BSL,"l","e","f","t">>
C_right        == <<BSL,"r","i","g","h","t">>
C_cdot         == <<BSL,"c","d","o","t">>
C_times        == <<BSL,"t","i","m","e","s">>
C_div          == <<BSL,"d","i","v">>
C_pm           == <<BSL,"p","m">>
C_ln           == <<BSL,"l","n">>
C_log          == <<BSL,"l","o","g">>
C_int          == <<BSL,"i","n","t">>
C_sum          == <<BSL,"s","u","m">>
C_prod         == <<BSL,"p","r","o","d">>
C_lim          == <<BSL,"l","i","m">>
C_to           == <<BSL,"t","o">>
C_rightarrow   == <<BSL,"r","i","g","h","t","a","r","r","o","w">>
C_operatorname == <<BSL,"o","p","e","r","a","t","o","r","n","a","m","e","{">>

\* re.sub(r'\\operatorname\{([^}]+)\}', r'\1', s)
RECURSIVE OperatornameFrom(_, _)
OperatornameFrom(s, i) ==
    IF i > Len(s) THEN <<>>
    ELSE LET b == i + Len(C_operatorname)
             j == IndexFrom(s, b, "}")
         IN  IF HasAt(s, i, C_operatorname) /\ j > b
             THEN SubSeq(s, b, j - 1) \o OperatornameFrom(s, j + 1)
             ELSE <<s[i]>> \o OperatornameFrom(s, i + 1)

\* the function names of the regular expression at line 209
BareFunctionNames ==
    { <<"s","i","n">>, <<"c","o","s">>, <<"t","a","n">>, <<"c","o","t">>,
      <<"s","e","c">>, <<"c","s","c">>, <<"a","r","c","s","i","n">>,
      <<"a","r","c","c","o","s">>, <<"a","r","c","t","a","n">>,
      <<"s","i","n","h">>, <<"c","o","s","h">>, <<"t","a","n","h">>,
      <<"c","o","t","h">>, <<"e","x","p">>, <<"l","o","g">>, <<"l","n">>,
      <<"d","e","t">>, <<"l","i","m">> }

\* (?<![\w\\])NAME(?=\s*[\(\{]) matches at i
BareFunctionAt(s, i, n) ==
    /\ HasAt(s, i, n)
    /\ ~(i > 1 /\ s[i - 1] \in WordChars \cup {BSL})
    /\ LET j == SkipSpaces(s, i + Len(n))
       IN  j <= Len(s) /\ s[j] \in {"(", "{"}

RECURSIVE BackslashFunctionsFrom(_, _)
BackslashFunctionsFrom(s, i) ==
    IF i > Len(s) THEN <<>>
    ELSE IF \E n \in BareFunctionNames : BareFunctionAt(s, i, n)
         THEN LET n == CHOOSE m \in BareFunctionNames : BareFunctionAt(s, i, m)
              IN  <<BSL>> \o n \o BackslashFunctionsFrom(s, i + Len(n))
         ELSE <<s[i]>> \o BackslashFunctionsFrom(s, i + 1)

\* re.sub(r'\^\s*([^{\\\s])', r'^{\1}', s)
RECURSIVE BraceSuperscriptsFrom(_, _)
BraceSuperscriptsFrom(s, i) ==
    IF i > Len(s) THEN <<>>
    ELSE LET j == SkipSpaces(s, i + 1)
         IN  IF s[i] = "^" /\ j <= Len(s) /\ s[j] \notin {"{", BSL}
             THEN <<"^", "{", s[j], "}">> \o BraceSuperscriptsFrom(s, j + 1)
             ELSE <<s[i]>> \o BraceSuperscriptsFrom(s, i + 1)

\* re.sub(r'(?<=[\s})])_\s*([^{\\\s])', r'_{\1}', s)
RECURSIVE BraceSubscriptsFrom(_, _)
BraceSubscriptsFrom(s, i) ==
    IF i > Len(s) THEN <<>>
    ELSE LET j == SkipSpaces(s, i + 1)
         IN  IF /\ s[i] = "_"
                /\ i > 1 /\ (IsSpace(s[i - 1]) \/ s[i - 1] \in {"}", ")"})
                /\ j <= Len(s) /\ s[j] \notin {"{", BSL}
             THEN <<"_", "{", s[j], "}">> \o BraceSubscriptsFrom(s, j + 1)
             ELSE <<s[i]>> \o BraceSubscriptsFrom(s, i + 1)

BigOperatorCommands == {C_int, C_sum, C_prod, C_lim, C_log, C_ln}

\* (\\(?:int|sum|prod|lim|log|ln))_([^{\\]) matches at i with command n
CommandSubscriptAt(s, i, n) ==
    /\ HasAt(s, i, n)
    /\ i + Len(n) + 1 <= Len(s)
    /\ s[i + Len(n)] = "_"
    /\ s[i + Len(n) + 1] \notin {"{", BSL}

\* re.sub(r'(\\(?:int|sum|prod|lim|log|ln))_([^{\\])', r'\1_{\2}', s)
RECURSIVE BraceCommandSubscriptsFrom(_, _)
BraceCommandSubscriptsFrom(s, i) ==
    IF i > Len(s) THEN <<>>
    ELSE IF \E n \in BigOperatorCommands : CommandSubscriptAt(s, i, n)
         THEN LET n == CHOOSE m \in BigOperatorCommands : CommandSubscriptAt(s, i, m)
                  k == i + Len(n)
              IN  n \o <<"_", "{", s[k + 1], "}">>
                    \o BraceCommandSubscriptsFrom(s, k + 2)
         ELSE <<s[i]>> \o BraceCommandSubscriptsFrom(s, i + 1)

\* lines 181-202: strip, then the literal replacements
PreprocessReplacements(tex) ==
    LET s1 == Strip(tex)
        s2 == Replace(Replace(s1, C_left, <<>>), C_right, <<>>)
        s3 == Replace(s2, C_cdot, <<"*">>)
        s4 == Replace(s3, C_times, <<"*">>)
        s5 == Replace(s4, C_div, <<"/">>)
        s6 == Replace(s5, C_pm, <<"+">>)
        s7 == OperatornameFrom(s6, 1)
    IN  Replace(s7, C_ln, C_log)

_preprocess_latex(tex) ==
    LET s8  == PreprocessReplacements(tex)
        s9  == IF HasLatexCommand(s8) THEN BackslashFunctionsFrom(s8, 1) ELSE s8
        s10 == BraceSuperscriptsFrom(s9, 1)
        s11 == BraceSubscriptsFrom(s10, 1)
    IN  BraceCommandSubscriptsFrom(s11, 1)

(***************************************************************************)
(* Command detection: the regular expressions of lines 232-280             *)
(***************************************************************************)
\* _CMD_PATTERNS, in the order of the dictionary: the command, the spellings
\* its pattern accepts, and whether the pattern is compiled with re.I
_CMD_PATTERNS ==
    << [cmd |-> "solve",      ci |-> TRUE,  names |-> {<<"s","o","l","v","e">>}],
       [cmd |-> "factor",     ci |-> TRUE,  names |-> {<<"f","a","c","t","o","r">>}],
       [cmd |-> "expand",     ci |-> TRUE,  names |-> {<<"e","x","p","a","n","d">>}],
       [cmd |-> "simplify",   ci |-> TRUE,  names |-> {<<"s","i","m","p","l","i","f","y">>}],
       [cmd |-> "diff",       ci |-> TRUE,  names |-> {<<"d","i","f","f">>}],
       [cmd |-> "integrate",  ci |-> TRUE,  names |-> {<<"i","n","t","e","g","r","a","t","e">>}],
       [cmd |-> "limit",      ci |-> TRUE,  names |-> {<<"l","i","m","i","t">>}],
       [cmd |-> "series",     ci |-> TRUE,  names |-> {<<"s","e","r","i","e","s">>}],
       [cmd |-> "numerical",  ci |-> FALSE, names |-> {<<"N">>}],
       [cmd |-> "subs",       ci |-> TRUE,  names |-> {<<"s","u","b","s">>}],
       [cmd |-> "det",        ci |-> TRUE,  names |-> {<<"d","e","t">>}],
       [cmd |-> "inv",        ci |-> TRUE,  names |-> {<<"i","n","v">>}],
       [cmd |-> "trace",      ci |-> TRUE,  names |-> {<<"t","r">>, <<"t","r","a","c","e">>}],
       [cmd |-> "transpose",  ci |-> TRUE,
        names |-> {<<"t","r","a","n","s","p","o","s","e">>, <<"t","r","a","n","s">>}],
       [cmd |-> "eigenvals",  ci |-> TRUE,
        names |-> {<<"e","i","g","e","n","v","a","l">>, <<"e","i","g","e","n","v","a","l","s">>}],
       [cmd |-> "eigenvects", ci |-> TRUE,
        names |-> {<<"e","i","g","e","n","v","e","c","t">>,
                   <<"e","i","g","e","n","v","e","c","t","s">>,
                   <<"e","i","g","e","n","v","e","c","t","o","r">>,
                   <<"e","i","g","e","n","v","e","c","t","o","r","s">>,
                   <<"e","i","g","e","n","v","e","c","t","s","o","r">>,
                   <<"e","i","g","e","n","v","e","c","t","s","o","r","s">>}],
       [cmd |-> "rank",       ci |-> TRUE,  names |-> {<<"r","a","n","k">>}],
       [cmd |-> "rref",       ci |-> TRUE,  names |-> {<<"r","r","e","f">>}],
       [cmd |-> "charpoly",   ci |-> TRUE,  names |-> {<<"c","h","a","r","p","o","l","y">>}],
       [cmd |-> "nullspace",  ci |-> TRUE,  names |-> {<<"n","u","l","l","s","p","a","c","e">>}],
       [cmd |-> "colspace",   ci |-> TRUE,  names |-> {<<"c","o","l","s","p","a","c","e">>}] >>

NoMatch == [m |-> FALSE]

\* ^\\?NAME\s*\((.+)\)\s*$ on s, for one spelling of NAME: the group, if it matches
CmdMatchName(s, name, ci) ==
    LET b == IF s # <<>> /\ s[1] = BSL THEN 2 ELSE 1
        t == IF ci THEN LowerStr(s) ELSE s
        p == SkipSpaces(s, b + Len(name))
        e == Len(RStrip(s))
    IN  IF HasAt(t, b, name) /\ p <= Len(s) /\ s[p] = "(" /\ s[e] = ")" /\ e > p + 1
        THEN [m |-> TRUE, g1 |-> SubSeq(s, p + 1, e - 1)]
        ELSE NoMatch

\* pat.match(s) for the pattern of one command
CmdMatch(s, pat) ==
    IF \E n \in pat.names : CmdMatchName(s, n, pat.ci).m
    THEN CmdMatchName(s, CHOOSE n \in pat.names : CmdMatchName(s, n, pat.ci).m, pat.ci)
    ELSE NoMatch

\* \s*(.+)$ from index i: the text the group takes (<<>> when it cannot match)
TrailingGroup(s, i) ==
    LET r == SkipSpaces(s, i)
    IN  IF r <= Len(s) THEN From(s, r)
        ELSE IF i <= Len(s) THEN <<s[Len(s)]>>
        ELSE <<>>

\* \s*_\{([^}]*)\}\s*\^\{([^}]*)\}\s*(.+)$ from index i
SubSupBody(s, i) ==
    LET p == SkipSpaces(s, i)
        j == IndexFrom(s, p + 2, "}")
        q == SkipSpaces(s, j + 1)
        k == IndexFrom(s, q + 2, "}")
    IN  IF /\ HasAt(s, p, <<"_", "{">>) /\ j > 0
           /\ HasAt(s, q, <<"^", "{">>) /\ k > 0
           /\ TrailingGroup(s, k + 1) # <<>>
        THEN [m |-> TRUE, g1 |-> SubSeq(s, p + 2, j - 1), g2 |-> SubSeq(s, q + 2, k - 1),
              g3 |-> TrailingGroup(s, k + 1)]
        ELSE NoMatch

\* _LATEX_INT_DEF.match(s)
_LATEX_INT_DEF(s) == IF HasAt(s, 1, C_int) THEN SubSupBody(s, Len(C_int) + 1) ELSE NoMatch

\* _LATEX_SUM_PROD.match(s): g0 is the operator, g1..g3 the bounds and the body
_LATEX_SUM_PROD(s) ==
    LET op == IF HasAt(s, 1, C_sum) THEN C_sum ELSE C_prod
        r  == SubSupBody(s, Len(op) + 1)
    IN  IF HasAt(s, 1, op) /\ r.m
        THEN [m |-> TRUE, g0 |-> From(op, 2), g1 |-> r.g1, g2 |-> r.g2, g3 |-> r.g3]
        ELSE NoMatch

\* the three spellings of the arrow in _LATEX_LIM_SUB
LimArrows == {C_to, C_rightarrow, <<"→">>}

\* an arrow starts at index a of s, inside the subscript that closes at the
\* first "}" after it
ArrowAt(s, a) == \E w \in LimArrows : HasAt(s, a, w)

\* the end of the arrow at a: the alternation tries \to first, and nothing of
\* the rest of the pattern fails on the shorter spelling
ArrowEnd(s, a) ==
    IF HasAt(s, a, C_to) THEN a + Len(C_to)
    ELSE IF HasAt(s, a, C_rightarrow) THEN a + Len(C_rightarrow)
    ELSE a + 1

\* _LATEX_LIM_SUB.match(s)
_LATEX_LIM_SUB(s) ==
    LET p  == SkipSpaces(s, Len(C_lim) + 1)
        j  == IndexFrom(s, p + 2, "}")
        As == {a \in (p + 2)..(j - 1) : ArrowAt(s, a)}
        a  == CHOOSE x \in As : \A y \in As : x <= y
        e  == ArrowEnd(s, a)
        k  == IndexFrom(s, e, "}")
    IN  IF /\ HasAt(s, 1, C_lim) /\ HasAt(s, p, <<"_", "{">>) /\ j > 0 /\ As # {}
           /\ TrailingGroup(s, k + 1) # <<>>
        THEN [m |-> TRUE, g1 |-> SubSeq(s, p + 2, a - 1),
              g2 |-> SubSeq(s, SkipSpaces(s, e), k - 1),
              g3 |-> TrailingGroup(s, k + 1)]
        ELSE NoMatch

\* _LATEX_LIM_BARE.match(s)
_LATEX_LIM_BARE(s) ==
    LET p == Len(C_lim) + 1
    IN  IF HasAt(s, 1, C_lim) /\ p <= Len(s) /\ IsSpace(s[p])
           /\ SkipSpaces(s, p) <= Len(s)
        THEN [m |-> TRUE, g1 |-> From(s, SkipSpaces(s, p))]
        ELSE NoMatch

\* _ASSIGN_FUNC.match(s)
_ASSIGN_FUNC(s) ==
    LET w == SkipWord(s, 1)
        p == SkipSpaces(s, w)
        j == IndexFrom(s, p + 1, ")")
        q == SkipSpaces(s, j + 1)
        r == SkipSpaces(s, q + 1)
    IN  IF /\ s # <<>> /\ s[1] \in Letters \cup {"_"}
           /\ p <= Len(s) /\ s[p] = "(" /\ j > p + 1
           /\ q <= Len(s) /\ s[q] = "=" /\ TrailingGroup(s, q + 1) # <<>>
        THEN [m |-> TRUE, g1 |-> SubSeq(s, 1, w - 1), g2 |-> SubSeq(s, p + 1, j - 1),
              g3 |-> TrailingGroup(s, q + 1)]
        ELSE NoMatch

\* _ASSIGN_VAR.match(s)
_ASSIGN_VAR(s) ==
    LET w == SkipWord(s, 1)
        q == SkipSpaces(s, w)
    IN  IF /\ s # <<>> /\ s[1] \in Letters \cup {"_"}
           /\ q <= Len(s) /\ s[q] = "=" /\ TrailingGroup(s, q + 1) # <<>>
        THEN [m |-> TRUE, g1 |-> SubSeq(s, 1, w - 1), g2 |-> TrailingGroup(s, q + 1)]
        ELSE NoMatch

\* the reserved names without the capital letters
LowerCaseReservedNames == {<<"e">>, <<"i">>, <<"p","i">>}

\* the names line 658 refuses to assign
ReservedNames == {<<"e">>, <<"i">>, <<"p","i">>, <<"E">>, <<"I">>}

(***************************************************************************)
(* Expression trees.  A tree is a tuple headed by its tag:                 *)
(*   <<"num", n, d>>      the rational n/d (d > 0, in lowest terms)       *)
(*   <<"sym", name>>      Symbol(name)                                     *)
(*   <<"const", name>>    the constants E and I of _CONSTANT_SUBS          *)
(*   <<"add", l, r>> <<"mul", l, r>> <<"div", l, r>> <<"pow", b, e>>       *)
(*   <<"neg", e>>                                                          *)
(*   <<"app", f, args>>   an AppliedUndef: Function(f) applied to args     *)
(*   <<"name", n>>        in the parser's output only: a one-letter word,  *)
(*                        before the local name table decides what it is   *)
(*   <<"call", f, args>>  in the parser's output only: a one-letter word   *)
(*                        followed by a parenthesised argument list        *)
(*   <<"eq", l, r>>       Eq(l, r)                                         *)
(***************************************************************************)
Num(n)       == <<"num", n, 1>>
Sym(name)    == <<"sym", name>>
Tag(e)       == e[1]

(***************************************************************************)
(* _latex_to_algebra and the cleaning steps of _safe_parse_latex           *)
(***************************************************************************)
\* _extract_braced(s, pos): the index of the brace that closes the one at
\* pos, or 0 (depth is the nesting depth reached so far)
RECURSIVE CloseBrace(_, _, _)
CloseBrace(s, i, depth) ==
    IF i > Len(s) THEN 0
    ELSE IF s[i] = "{" THEN CloseBrace(s, i + 1, depth + 1)
    ELSE IF s[i] = "}"
         THEN IF depth = 1 THEN i ELSE CloseBrace(s, i + 1, depth - 1)
    ELSE CloseBrace(s, i + 1, depth)

\* lines 488-503: ^{exp} -> **(exp), recursively; ** is written "^" here,
\* which is what convert_xor makes of it
RECURSIVE SuperscriptsToPowers(_)
SuperscriptsToPowers(s) ==
    IF s = <<>> THEN <<>>
    ELSE LET j == CloseBrace(s, 2, 0)
         IN  IF s[1] = "^" /\ Len(s) >= 2 /\ s[2] = "{" /\ j > 0
             THEN <<"^", "(">> \o SuperscriptsToPowers(SubSeq(s, 3, j - 1)) \o <<")">>
                    \o SuperscriptsToPowers(From(s, j + 1))
             ELSE <<s[1]>> \o SuperscriptsToPowers(Tail(s))

\* re.sub(r'_\{([^}]*)\}', r'_\1', s)
RECURSIVE UnbraceSubscriptsFrom(_, _)
UnbraceSubscriptsFrom(s, i) ==
    IF i > Len(s) THEN <<>>
    ELSE LET j == IndexFrom(s, i + 2, "}")
         IN  IF HasAt(s, i, <<"_", "{">>) /\ j > 0
             THEN <<"_">> \o SubSeq(s, i + 2, j - 1) \o UnbraceSubscriptsFrom(s, j + 1)
             ELSE <<s[i]>> \o UnbraceSubscriptsFrom(s, i + 1)

C_frac == <<BSL, "f", "r", "a", "c">>

\* s.find(p) at or after i, as an index from 1, or 0
RECURSIVE FindFrom(_, _, _)
FindFrom(s, i, p) ==
    IF i + Len(p) - 1 > Len(s) THEN 0
    ELSE IF HasAt(s, i, p) THEN i ELSE FindFrom(s, i + 1, p)

\* lines 446-458: \frac{num}{den} -> ((num)/(den)), the first one found
\* each time round the loop until none is left or one lacks a braced
\* argument; those inside num and den are found by the later rounds
RECURSIVE FractionsToQuotients(_)
FractionsToQuotients(s) ==
    LET idx == FindFrom(s, 1, C_frac)
        j1  == IF idx > 0 /\ idx + 5 <= Len(s) /\ s[idx + 5] = "{"
               THEN CloseBrace(s, idx + 5, 0) ELSE 0
        j2  == IF j1 > 0 /\ j1 + 1 <= Len(s) /\ s[j1 + 1] = "{"
               THEN CloseBrace(s, j1 + 1, 0) ELSE 0
    IN  IF j2 = 0 THEN s
        ELSE FractionsToQuotients(
                 SubSeq(s, 1, idx - 1) \o <<"(", "(">> \o SubSeq(s, idx + 6, j1 - 1)
                     \o <<")", "/", "(">> \o SubSeq(s, j1 + 2, j2 - 1) \o <<")", ")">>
                     \o From(s, j2 + 1))

\* lines 524-530: the string handed to parse_expr
Cleaned(tex) ==
    UnbraceSubscriptsFrom(
        StripBackslashes(SuperscriptsToPowers(FractionsToQuotients(tex))), 1)

(***************************************************************************)
(* parse_expr with standard_transformations, convert_xor and               *)
(* implicit_multiplication_application, on the cleaned string.             *)
(***************************************************************************)
\* Tokens: <<"num", n>>, <<"id", letter>>, <<"idw", letter>>, <<"op", c>>,
\* <<"end">>.  <<"id", c>> is a word of one letter, which the local name
\* table of line 537 binds; a word of several letters that no table knows is
\* split into its letters (split_symbols), each a token <<"idw", c>>.
OpChars == {"+", "-", "*", "/", "^", "(", ")", ","}

RECURSIVE NumberEnd(_, _)
NumberEnd(s, i) == IF i <= Len(s) /\ s[i] \in Digits THEN NumberEnd(s, i + 1) ELSE i

RECURSIVE NumberValue(_, _, _)
NumberValue(s, i, j) ==
    IF j < i THEN 0 ELSE 10 * NumberValue(s, i, j - 1) + DigitVal(s[j])

BadToken == <<"bad">>

RECURSIVE Tokenize(_, _)
Tokenize(s, i) ==
    IF i > Len(s) THEN << <<"end">> >>
    ELSE IF IsSpace(s[i]) THEN Tokenize(s, i + 1)
    ELSE IF s[i] \in Digits
         THEN LET j == NumberEnd(s, i)
              IN  IF j <= Len(s) /\ s[j] \in Letters \cup {"_", "."}
                     /\ ~(s[j] \in Letters /\ SkipWord(s, j) = SkipLetters(s, j))
                  THEN << BadToken >>
                  ELSE << <<"num", NumberValue(s, i, j - 1)>> >> \o Tokenize(s, j)
    ELSE IF s[i] \in Letters
         THEN IF SkipWord(s, i) # SkipLetters(s, i) THEN << BadToken >>
              ELSE IF SkipLetters(s, i) = i + 1 /\ ~(i > 1 /\ s[i - 1] \in Letters)
                   THEN << <<"id", s[i]>> >> \o Tokenize(s, i + 1)
                   ELSE << <<"idw", s[i]>> >> \o Tokenize(s, i + 1)
    ELSE IF s[i] \in OpChars THEN << <<"op", s[i]>> >> \o Tokenize(s, i + 1)
    ELSE << BadToken >>

IsOp(tok, c) == tok[1] = "op" /\ tok[2] = c

StartsAtom(tok) == tok[1] \in {"num", "id", "idw"} \/ IsOp(tok, "(")

Fail == [ok |-> FALSE]

\* The grammar is one recursive operator, with a case for each rule
RECURSIVE ParseRule(_, _, _, _)

ParseSum(t, i) == ParseRule("sum", t, i, <<>>)
ParseSumRest(t, i, acc) == ParseRule("sum_rest", t, i, acc)
ParseTerm(t, i) == ParseRule("term", t, i, <<>>)
ParseTermRest(t, i, acc) == ParseRule("term_rest", t, i, acc)
ParseFactor(t, i) == ParseRule("factor", t, i, <<>>)
ParsePower(t, i) == ParseRule("power", t, i, <<>>)
ParseAtom(t, i) == ParseRule("atom", t, i, <<>>)
ParseArgs(t, i, acc) == ParseRule("args", t, i, acc)

ParseRule(rule, t, i, acc) ==
    \* arith_expr: term (('+'|'-') term)*
    CASE rule = "sum" ->
            LET a == ParseTerm(t, i)
            IN  IF a.ok THEN ParseSumRest(t, a.pos, a.ast) ELSE Fail
      [] rule = "sum_rest" ->
            IF IsOp(t[i], "+") \/ IsOp(t[i], "-")
            THEN LET b == ParseTerm(t, i + 1)
                 IN  IF b.ok
                     THEN ParseSumRest(t, b.pos,
                              IF IsOp(t[i], "+") THEN <<"add", acc, b.ast>>
                              ELSE <<"add", acc, <<"neg", b.ast>> >>)
                     ELSE Fail
            ELSE [ok |-> TRUE, ast |-> acc, pos |-> i]
    \* term: factor (('*'|'/') factor)*, with the "*" that implicit
    \* multiplication inserts between a factor and the start of an atom
      [] rule = "term" ->
            LET a == ParseFactor(t, i)
            IN  IF a.ok THEN ParseTermRest(t, a.pos, a.ast) ELSE Fail
      [] rule = "term_rest" ->
            IF IsOp(t[i], "*") \/ IsOp(t[i], "/")
            THEN LET b == ParseFactor(t, i + 1)
                 IN  IF b.ok
                     THEN ParseTermRest(t, b.pos,
                              IF IsOp(t[i], "*") THEN <<"mul", acc, b.ast>>
                              ELSE <<"div", acc, b.ast>>)
                     ELSE Fail
            ELSE IF StartsAtom(t[i])
            THEN LET b == ParsePower(t, i)
                 IN  IF b.ok THEN ParseTermRest(t, b.pos, <<"mul", acc, b.ast>>) ELSE Fail
            ELSE [ok |-> TRUE, ast |-> acc, pos |-> i]
    \* factor: ('+'|'-') factor | power
      [] rule = "factor" ->
            IF IsOp(t[i], "-")
            THEN LET a == ParseFactor(t, i + 1)
                 IN  IF a.ok THEN [ok |-> TRUE, ast |-> <<"neg", a.ast>>, pos |-> a.pos] ELSE Fail
            ELSE IF IsOp(t[i], "+") THEN ParseFactor(t, i + 1)
            ELSE ParsePower(t, i)
    \* power: atom ['**' factor]
      [] rule = "power" ->
            LET a == ParseAtom(t, i)
            IN  IF ~a.ok THEN Fail
                ELSE IF IsOp(t[a.pos], "^")
                THEN LET b == ParseFactor(t, a.pos + 1)
                     IN  IF b.ok THEN [ok |-> TRUE, ast |-> <<"pow", a.ast, b.ast>>, pos |-> b.pos]
                         ELSE Fail
                ELSE a
    \* atom: NUMBER | NAME | NAME '(' arglist ')' | '(' arith_expr ')'
      [] rule = "atom" ->
            IF t[i][1] = "num" THEN [ok |-> TRUE, ast |-> Num(t[i][2]), pos |-> i + 1]
            ELSE IF t[i][1] = "idw" THEN [ok |-> TRUE, ast |-> Sym(<<t[i][2]>>), pos |-> i + 1]
            ELSE IF t[i][1] = "id"
            THEN IF IsOp(t[i + 1], "(")
                 THEN LET a == ParseArgs(t, i + 2, <<>>)
                      IN  IF a.ok
                          THEN [ok |-> TRUE, ast |-> <<"call", <<t[i][2]>>, a.ast>>, pos |-> a.pos]
                          ELSE Fail
                 ELSE [ok |-> TRUE, ast |-> <<"name", <<t[i][2]>> >>, pos |-> i + 1]
            ELSE IF IsOp(t[i], "(")
            THEN LET a == ParseSum(t, i + 1)
                 IN  IF a.ok /\ IsOp(t[a.pos], ")")
                     THEN [ok |-> TRUE, ast |-> a.ast, pos |-> a.pos + 1]
                     ELSE Fail
            ELSE Fail
    \* arglist: arith_expr (',' arith_expr)* ')'
      [] rule = "args" ->
            LET a == ParseSum(t, i)
            IN  IF ~a.ok THEN Fail
                ELSE IF IsOp(t[a.pos], ",") THEN ParseArgs(t, a.pos + 1, Append(acc, a.ast))
                ELSE IF IsOp(t[a.pos], ")")
                THEN [ok |-> TRUE, ast |-> Append(acc, a.ast), pos |-> a.pos + 1]
                ELSE Fail

\* parse_expr(cleaned): the tree, or a SyntaxError
ParseText(tex) ==
    LET t == Tokenize(Cleaned(tex), 1)
        r == ParseSum(t, 1)
    IN  IF t[Len(t)] # BadToken /\ r.ok /\ r.pos = Len(t)
        THEN [ok |-> TRUE, ast |-> r.ast]
        ELSE Fail

\* names_in_expr of line 536 that get a cached Symbol when bound neither as
\* a function nor as a variable: the one-letter words of the cleaned string
RECURSIVE WordsFrom(_, _)
WordsFrom(s, i) ==
    IF i > Len(s) THEN {}
    ELSE IF s[i] \in Letters \cup {"_"}
         THEN {SubSeq(s, i, SkipWord(s, i) - 1)} \cup WordsFrom(s, SkipWord(s, i))
    ELSE WordsFrom(s, i + 1)

NamesInExpr(tex) == WordsFrom(Cleaned(tex), 1)

(***************************************************************************)
(* SymPy values.  The canonical form of an expression is a polynomial with *)
(* rational coefficients over atoms: a set of terms [m, c] with pairwise   *)
(* different monomials m (a function from atoms to exponents >= 1) and     *)
(* coefficients c = <<n, d>> # 0.  An atom is a symbol, a constant, or an  *)
(* application of an undefined function to canonical arguments.            *)
(* Two expressions have the same canonical form iff they are equal as      *)
(* polynomials, which is the equality simplify() and the renderer are      *)
(* taken to decide.                                                        *)
(***************************************************************************)
Abs(n) == IF n < 0 THEN -n ELSE n

RECURSIVE GCD(_, _)
GCD(a, b) == IF b = 0 THEN a ELSE GCD(b, a % b)

\* Rational(n, d) for d # 0
Rat(n, d) ==
    LET g  == GCD(Abs(n), Abs(d))
        sg == IF d < 0 THEN -1 ELSE 1
    IN  <<(sg * n) \div g, (sg * d) \div g>>

RAdd(a, b) == Rat(a[1] * b[2] + b[1] * a[2], a[2] * b[2])
RMul(a, b) == Rat(a[1] * b[1], a[2] * b[2])
RZero == <<0, 1>>
ROne  == <<1, 1>>

EmptyMono == [a \in {} |-> 0]

MonoMul(m1, m2) ==
    [a \in DOMAIN m1 \cup DOMAIN m2 |->
        (IF a \in DOMAIN m1 THEN m1[a] ELSE 0) + (IF a \in DOMAIN m2 THEN m2[a] ELSE 0)]

PZero         == {}
PConst(r)     == IF r = RZero THEN {} ELSE {[m |-> EmptyMono, c |-> r]}
PAtom(a)      == {[m |-> [x \in {a} |-> 1], c |-> ROne]}
PScale(p, r)  == IF r = RZero THEN {} ELSE {[m |-> t.m, c |-> RMul(t.c, r)] : t \in p}
PNeg(p)       == PScale(p, <<-1, 1>>)

\* the sum of the coefficients of a set of pairs <<index, term>>
RECURSIVE CoeffSum(_)
CoeffSum(S) ==
    IF S = {} THEN RZero
    ELSE LET x == CHOOSE y \in S : TRUE IN RAdd(x[2].c, CoeffSum(S \ {x}))

\* terms (tagged so that equal terms of the two operands stay apart) to a
\* polynomial: like monomials collected, zero coefficients dropped
Collect(S) ==
    LET ms == {x[2].m : x \in S}
        co(m) == CoeffSum({x \in S : x[2].m = m})
    IN  {[m |-> m, c |-> co(m)] : m \in {k \in ms : co(k) # RZero}}

PAdd(p, q) == Collect({<<1, t>> : t \in p} \cup {<<2, t>> : t \in q})

PMul(p, q) ==
    Collect({<<<<t, u>>, [m |-> MonoMul(t.m, u.m), c |-> RMul(t.c, u.c)]>> :
                t \in p, u \in q})

RECURSIVE PPow(_, _)
PPow(p, n) == IF n = 0 THEN PConst(ROne) ELSE PMul(p, PPow(p, n - 1))

IsConstPoly(p) == \A t \in p : t.m = EmptyMono

\* the value of a constant polynomial
ConstOf(p) == IF p = {} THEN RZero ELSE (CHOOSE t \in p : TRUE).c

\* expr.is_Integer
is_Integer(p) == IsConstPoly(p) /\ ConstOf(p)[2] = 1

\* the atoms of a value that are symbols: free_symbols of the canonical form
RECURSIVE ValueFreeSymbols(_)
ValueFreeSymbols(p) ==
    UNION { UNION { IF Tag(a) = "sym" THEN {a[2]}
                    ELSE IF Tag(a) = "app"
                         THEN UNION {ValueFreeSymbols(a[3][k]) : k \in 1..Len(a[3])}
                    ELSE {} : a \in DOMAIN t.m } : t \in p }

\* simplify(expr) of an expression tree: its canonical form.  A power with
\* an exponent that is no natural number, and a quotient by a polynomial
\* that is no number, stay as atoms.
RECURSIVE Canon(_)
Canon(e) ==
    CASE Tag(e) = "num"   -> PConst(Rat(e[2], e[3]))
      [] Tag(e) = "sym"   -> PAtom(e)
      [] Tag(e) = "const" -> PAtom(e)
      [] Tag(e) = "add"   -> PAdd(Canon(e[2]), Canon(e[3]))
      [] Tag(e) = "mul"   -> PMul(Canon(e[2]), Canon(e[3]))
      [] Tag(e) = "neg"   -> PNeg(Canon(e[2]))
      [] Tag(e) = "div"   ->
            LET d == Canon(e[3])
            IN  IF IsConstPoly(d) /\ d # {}
                THEN PScale(Canon(e[2]), <<ConstOf(d)[2], ConstOf(d)[1]>>)
                ELSE PMul(Canon(e[2]), PAtom(<<"inv", d>>))
      [] Tag(e) = "pow"   ->
            LET x == Canon(e[3])
            IN  IF is_Integer(x) /\ ConstOf(x)[1] >= 0
                THEN PPow(Canon(e[2]), ConstOf(x)[1])
                ELSE PAtom(<<"powx", Canon(e[2]), x>>)
      [] Tag(e) = "app"   -> PAtom(<<"app", e[2], [k \in 1..Len(e[3]) |-> Canon(e[3][k])]>>)
      [] Tag(e) = "eq"    -> PAtom(<<"eq", Canon(e[2]), Canon(e[3])>>)

\* expr.free_symbols of an expression tree, as names
RECURSIVE free_symbols(_)
free_symbols(e) ==
    CASE Tag(e) = "sym" -> {e[2]}
      [] Tag(e) \in {"num", "const"} -> {}
      [] Tag(e) \in {"add", "mul", "div", "pow", "eq"} ->
            free_symbols(e[2]) \cup free_symbols(e[3])
      [] Tag(e) = "neg" -> free_symbols(e[2])
      [] Tag(e) = "app" -> UNION {free_symbols(e[3][k]) : k \in 1..Len(e[3])}
      [] Tag(e) = "matrix" ->
            UNION {free_symbols(e[2][i][j]) : i \in 1..Len(e[2]), j \in 1..Len(e[2][1])}

\* _free_names(expr)
_free_names(e) == free_symbols(e)

\* expr._subs(Symbol(old), new): one substitution, on the tree
RECURSIVE Subs1(_, _, _)
Subs1(e, old, new) ==
    CASE Tag(e) = "sym" -> IF e[2] = old THEN new ELSE e
      [] Tag(e) \in {"num", "const"} -> e
      [] Tag(e) \in {"add", "mul", "div", "pow", "eq"} ->
            <<Tag(e), Subs1(e[2], old, new), Subs1(e[3], old, new)>>
      [] Tag(e) = "neg" -> <<"neg", Subs1(e[2], old, new)>>
      [] Tag(e) = "app" ->
            <<"app", e[2], [k \in 1..Len(e[3]) |-> Subs1(e[3][k], old, new)]>>
      [] Tag(e) = "matrix" ->
            <<"matrix", [i \in 1..Len(e[2]) |->
                            [j \in 1..Len(e[2][i]) |-> Subs1(e[2][i][j], old, new)]]>>

\* the order of characters in Python string comparison (ASCII)
CharOrder ==
    <<"0","1","2","3","4","5","6","7","8","9",
      "A","B","C","D","E","F","G","H","I","J","K","L","M",
      "N","O","P","Q","R","S","T","U","V","W","X","Y","Z","_",
      "a","b","c","d","e","f","g","h","i","j","k","l","m",
      "n","o","p","q","r","s","t","u","v","w","x","y","z">>

CharRank(c) == CHOOSE k \in 1..Len(CharOrder) : CharOrder[k] = c

\* a < b for two names, as default_sort_key orders two Symbols
RECURSIVE NameLess(_, _)
NameLess(a, b) ==
    IF a = <<>> THEN b # <<>>
    ELSE IF b = <<>> THEN FALSE
    ELSE IF a[1] = b[1] THEN NameLess(Tail(a), Tail(b))
    ELSE CharRank(a[1]) < CharRank(b[1])

\* expr.subs(dict) as SymPy does it for a dictionary of Symbols: the
\* substitutions are made one after the other, in the canonical order of the
\* keys (Basic.subs, simultaneous=False)
RECURSIVE SubsDict(_, _)
SubsDict(e, map) ==
    IF DOMAIN map = {} THEN e
    ELSE LET k == CHOOSE x \in DOMAIN map : \A y \in DOMAIN map : x = y \/ NameLess(x, y)
         IN  SubsDict(Subs1(e, k, map[k]), [x \in DOMAIN map \ {k} |-> map[x]])

(***************************************************************************)
(* The local name table of _safe_parse_latex, lines 536-555, and           *)
(* _fix_constants                                                          *)
(***************************************************************************)
\* the one-letter names of _CONSTANT_SUBS
ConstantNames == {<<"e">>, <<"i">>}

\* a Symbol of the parsed text after _fix_constants
FixedSymbol(n) == IF n \in ConstantNames THEN <<"const", n>> ELSE Sym(n)

\* parse_expr evaluates the text with the table: a name bound to
\* Function(n) must be applied, and a Symbol cannot be multiplied by an
\* argument tuple
RECURSIVE BindOK(_, _)
BindOK(e, fnames) ==
    CASE Tag(e) = "name" -> e[2] \notin fnames
      [] Tag(e) \in {"num", "sym"} -> TRUE
      [] Tag(e) \in {"add", "mul", "div", "pow"} -> BindOK(e[2], fnames) /\ BindOK(e[3], fnames)
      [] Tag(e) = "neg" -> BindOK(e[2], fnames)
      [] Tag(e) = "call" ->
            /\ e[2] \in fnames \/ Len(e[3]) = 1
            /\ \A k \in 1..Len(e[3]) : BindOK(e[3][k], fnames)

\* the expression parse_expr builds: a one-letter word followed by "(" is an
\* application when the word names a user function, and a product otherwise
RECURSIVE Bind(_, _)
Bind(e, fnames) ==
    CASE Tag(e) \in {"name", "sym"} -> FixedSymbol(e[2])
      [] Tag(e) = "num" -> e
      [] Tag(e) \in {"add", "mul", "div", "pow"} ->
            <<Tag(e), Bind(e[2], fnames), Bind(e[3], fnames)>>
      [] Tag(e) = "neg" -> <<"neg", Bind(e[2], fnames)>>
      [] Tag(e) = "call" ->
            IF e[2] \in fnames
            THEN <<"app", e[2], [k \in 1..Len(e[3]) |-> Bind(e[3][k], fnames)]>>
            ELSE <<"mul", FixedSymbol(e[2]), Bind(e[3][1], fnames)>>

\* what of _safe_parse_latex(tex) does not depend on the session: the parse
\* and the words of the text
Raw(tex) == [tex |-> tex, parse |-> ParseText(tex), names |-> NamesInExpr(tex)]

\* a Python exception, by its message
Raise(msg) == [ok |-> FALSE, exc |-> msg]
Return(v)  == [ok |-> TRUE, val |-> v]

SyntaxError   == "invalid syntax"
CircularError == "Circular dependency detected"
RecursionErr  == "maximum recursion depth exceeded"
IndexError    == "list index out of range"
ValueError    == "invalid literal for int()"

\* the names _safe_parse_latex passes to _get_symbol (lines 538-548)
ParseCached(raw, V, F) ==
    {n \in raw.names : n \notin DOMAIN F /\ (n \in DOMAIN V \/ Len(n) = 1)}

\* _safe_parse_latex(tex) in a session with the tables V and F
_safe_parse_latex(raw, V, F) ==
    IF raw.parse.ok /\ BindOK(raw.parse.ast, DOMAIN F)
    THEN Return(Bind(raw.parse.ast, DOMAIN F))
    ELSE Raise(SyntaxError)

(***************************************************************************)
(* The resolver: _resolve_variable, _resolve_expr, _apply_user_functions   *)
(***************************************************************************)
\* the greatest nesting of user-function expansions before Python raises
\* RecursionError (it stands for sys.getrecursionlimit())
MaxExpansionDepth == 3

\* a resolver without the visited check of lines 101-102: a name met again
\* on the way down is left as a free symbol
RECURSIVE ResolveUnguarded(_, _, _)
ResolveUnguarded(V, name, visited) ==
    IF name \in visited \/ name \notin DOMAIN V THEN Return(Sym(name))
    ELSE LET expr == V[name].expr
             keys == {sn \in free_symbols(expr) : sn \in DOMAIN V}
             sub  == [sn \in keys |-> ResolveUnguarded(V, sn, visited \cup {name})]
         IN  Return(SubsDict(expr, [sn \in keys |-> sub[sn].val]))

\* a resolver whose recursive calls share one visited set instead of each
\* getting a copy: the names met under an earlier sibling stay visited
RECURSIVE ResolveSharedVisited(_, _, _)
ResolveSharedVisited(V, name, visited) ==
    IF name \in visited THEN Raise(CircularError)
    ELSE IF name \notin DOMAIN V THEN Return(Sym(name))
    ELSE LET expr == V[name].expr
             keys == {sn \in free_symbols(expr) : sn \in DOMAIN V}
             met(sn) == UNION {{s} \cup {m \in DOMAIN V : m \in free_symbols(V[s].expr)} :
                                  s \in {k \in keys : NameLess(k, sn)}}
             sub  == [sn \in keys |-> ResolveSharedVisited(V, sn, visited \cup {name} \cup met(sn))]
         IN  IF \E sn \in keys : ~sub[sn].ok THEN Raise(CircularError)
             ELSE Return(SubsDict(expr, [sn \in keys |-> sub[sn].val]))


RECURSIVE _resolve_variable(_, _, _)
_resolve_variable(V, name, visited) ==
    IF name \in visited THEN Raise(CircularError)
    ELSE IF name \notin DOMAIN V THEN Return(Sym(name))
    ELSE LET expr == V[name].expr
             keys == {sn \in free_symbols(expr) : sn \in DOMAIN V}
             sub  == [sn \in keys |-> _resolve_variable(V, sn, visited \cup {name})]
         IN  IF \E sn \in keys : ~sub[sn].ok THEN Raise(CircularError)
             ELSE Return(SubsDict(expr, [sn \in keys |-> sub[sn].val]))

\* dict(zip(params, args)): a later duplicate of a parameter wins
ZipDict(params, args) ==
    [p \in {params[k] : k \in 1..Len(params)} |->
        args[CHOOSE k \in 1..Len(params) :
                params[k] = p /\ \A j \in 1..Len(params) : params[j] = p => j <= k]]

\* the first exception among the results rs (a sequence), if any
FirstExc(rs) ==
    rs[CHOOSE k \in 1..Len(rs) : ~rs[k].ok /\ \A j \in 1..(k - 1) : rs[j].ok]

AllOk(rs) == \A k \in 1..Len(rs) : rs[k].ok

RECURSIVE _resolve_expr(_, _, _, _, _), _apply_user_functions(_, _, _, _)

_resolve_expr(V, F, expr, exclude, depth) ==
    LET a == _apply_user_functions(V, F, expr, depth)
    IN  IF ~a.ok THEN a
        ELSE LET keys == {sn \in free_symbols(a.val) : sn \in DOMAIN V /\ sn \notin exclude}
                 sub  == [sn \in keys |-> _resolve_variable(V, sn, {})]
             IN  IF \E sn \in keys : ~sub[sn].ok THEN Raise(CircularError)
                 ELSE Return(SubsDict(a.val, [sn \in keys |-> sub[sn].val]))

_apply_user_functions(V, F, expr, depth) ==
    IF /\ Tag(expr) = "app" /\ expr[2] \in DOMAIN F
       /\ Len(expr[3]) = Len(F[expr[2]].params)
    THEN IF depth >= MaxExpansionDepth THEN Raise(RecursionErr)
         ELSE LET fdef   == F[expr[2]]
                  body   == SubsDict(fdef.expr, ZipDict(fdef.params, expr[3]))
                  r2     == _apply_user_functions(V, F, body, depth + 1)
              IN  IF ~r2.ok THEN r2 ELSE _resolve_expr(V, F, r2.val, {}, depth + 1)
    ELSE IF Tag(expr) \in {"add", "mul", "div", "pow", "eq"}
    THEN LET rs == <<_apply_user_functions(V, F, expr[2], depth),
                     _apply_user_functions(V, F, expr[3], depth)>>
         IN  IF AllOk(rs) THEN Return(<<Tag(expr), rs[1].val, rs[2].val>>) ELSE FirstExc(rs)
    ELSE IF Tag(expr) = "neg"
    THEN LET r == _apply_user_functions(V, F, expr[2], depth)
         IN  IF r.ok THEN Return(<<"neg", r.val>>) ELSE r
    ELSE IF Tag(expr) = "app"
    THEN LET rs == [k \in 1..Len(expr[3]) |-> _apply_user_functions(V, F, expr[3][k], depth)]
         IN  IF AllOk(rs) THEN Return(<<"app", expr[2], [k \in 1..Len(rs) |-> rs[k].val]>>)
             ELSE FirstExc(rs)
    ELSE Return(expr)

(***************************************************************************)
(* The algebra engine (SymPy) on canonical forms.  A result is a tagged    *)
(* value: <<"poly", p>> for an expression, and an operator applied to      *)
(* canonical arguments where the engine's answer is not computed here      *)
(* (<<"solve", ..>>, <<"series", ..>>, <<"factor", ..>>, <<"float", ..>>). *)
(***************************************************************************)
Poly(p) == <<"poly", p>>

\* Matrix(rows), and isinstance(e, MatrixBase)
Matrix(rows) == <<"matrix", rows>>

IsMatrix(e) == Tag(e) = "matrix"

\* the value of a matrix: its entries in canonical form
MatrixValue(e) ==
    <<"matrix", [i \in 1..Len(e[2]) |-> [j \in 1..Len(e[2][i]) |-> Canon(e[2][i][j])]]>>

\* simplify(expr)
simplify(e) ==
    IF Tag(e) = "matrix" THEN MatrixValue(e)
    ELSE IF Tag(e) = "eq"
    THEN LET d == PAdd(Canon(e[2]), PNeg(Canon(e[3])))
         IN  IF IsConstPoly(d) THEN <<"bool", d = {}>>
             ELSE <<"eq", Canon(e[2]), Canon(e[3])>>
    ELSE Poly(Canon(e))

\* the exponent of the atom a in the monomial m
Exponent(m, a) == IF a \in DOMAIN m THEN m[a] ELSE 0

\* the monomial m without the atom a
Without(m, a) == [x \in DOMAIN m \ {a} |-> m[x]]

\* the names free in the atom a (an atom that is no Symbol may hold some)
AtomFreeSymbols(a) == ValueFreeSymbols(PAtom(a))

\* p is a polynomial in Symbol(v): no other atom of p mentions v
PolynomialIn(p, v) ==
    \A t \in p : \A a \in DOMAIN t.m : a = Sym(v) \/ v \notin AtomFreeSymbols(a)

\* p with the polynomial q put for Symbol(v)
PSubst(p, v, q) ==
    Collect(UNION {{<<<<t, u>>, u>> :
                      u \in PMul({[m |-> Without(t.m, Sym(v)), c |-> t.c]},
                                 PPow(q, Exponent(t.m, Sym(v))))} : t \in p})

\* the sum of the polynomials f[k], k in lo..hi
RECURSIVE PSumOver(_, _, _)
PSumOver(f, lo, hi) == IF hi < lo THEN PZero ELSE PAdd(f[hi], PSumOver(f, lo, hi - 1))

RECURSIVE PProdOver(_, _, _)
PProdOver(f, lo, hi) ==
    IF hi < lo THEN PConst(ROne) ELSE PMul(f[hi], PProdOver(f, lo, hi - 1))

\* d/dv of a polynomial in Symbol(v)
PDiff(p, v) ==
    Collect({<<t, [m |-> IF t.m[Sym(v)] = 1 THEN Without(t.m, Sym(v))
                         ELSE [t.m EXCEPT ![Sym(v)] = @ - 1],
                   c |-> RMul(t.c, <<t.m[Sym(v)], 1>>)]>> :
             t \in {u \in p : Sym(v) \in DOMAIN u.m}})

RECURSIVE PDiffN(_, _, _)
PDiffN(p, v, n) == IF n = 0 THEN p ELSE PDiffN(PDiff(p, v), v, n - 1)

\* the antiderivative of a polynomial in Symbol(v) that SymPy returns
PIntegrate(p, v) ==
    Collect({<<t, [m |-> [x \in DOMAIN t.m \cup {Sym(v)} |-> Exponent(t.m, x) +
                                                    (IF x = Sym(v) THEN 1 ELSE 0)],
                   c |-> RMul(t.c, Rat(1, Exponent(t.m, Sym(v)) + 1))]>> : t \in p})

\* diff(expr, var, order)
diff(p, v, order) ==
    IF PolynomialIn(p, v) /\ order >= 0 THEN Poly(PDiffN(p, v, order))
    ELSE <<"Derivative", p, v, order>>

\* integrate(expr, var)
integrate(p, v) ==
    IF PolynomialIn(p, v) THEN Poly(PIntegrate(p, v)) ELSE <<"Integral", p, v>>

\* integrate(expr, (var, a, b))
integrate_definite(p, v, a, b) ==
    IF PolynomialIn(p, v)
    THEN Poly(PAdd(PSubst(PIntegrate(p, v), v, b), PNeg(PSubst(PIntegrate(p, v), v, a))))
    ELSE <<"Integral", p, v, a, b>>

\* limit(expr, var, point), at a finite point
limit(p, v, point) ==
    IF PolynomialIn(p, v) THEN Poly(PSubst(p, v, point)) ELSE <<"Limit", p, v, point>>

\* summation(expr, (var, a, b)) and product(expr, (var, a, b)): computed for
\* integer limits with a <= b + 1
summation(p, v, a, b) ==
    IF PolynomialIn(p, v) /\ is_Integer(a) /\ is_Integer(b) /\ ConstOf(a)[1] <= ConstOf(b)[1] + 1
    THEN Poly(PSumOver([k \in ConstOf(a)[1]..ConstOf(b)[1] |-> PSubst(p, v, PConst(<<k, 1>>))],
                       ConstOf(a)[1], ConstOf(b)[1]))
    ELSE <<"Sum", p, v, a, b>>

product(p, v, a, b) ==
    IF PolynomialIn(p, v) /\ is_Integer(a) /\ is_Integer(b) /\ ConstOf(a)[1] <= ConstOf(b)[1] + 1
    THEN Poly(PProdOver([k \in ConstOf(a)[1]..ConstOf(b)[1] |-> PSubst(p, v, PConst(<<k, 1>>))],
                        ConstOf(a)[1], ConstOf(b)[1]))
    ELSE <<"Product", p, v, a, b>>

\* solve(expr, var), series(expr, var, point, n), factor(expr), N(expr, prec)
solve(e, v) ==
    IF Tag(e) = "eq" THEN <<"solve", PAdd(Canon(e[2]), PNeg(Canon(e[3]))), v>>
    ELSE <<"solve", Canon(e), v>>
series(p, v, point, n) == <<"series", p, v, point, n>>
factor(p) == IF IsConstPoly(p) THEN Poly(p) ELSE <<"factor", p>>
expand(p) == Poly(p)
N(p, prec) == <<"float", p, prec>>

\* N(expr) changes the rendering of a polynomial: some number in it becomes
\* a Float (a coefficient other than 1 and -1, a constant term, or E)
NumericDiffers(p) ==
    \E t \in p : \/ t.m = EmptyMono
                 \/ t.c \notin {<<1, 1>>, <<-1, 1>>}
                 \/ <<"const", <<"e">> >> \in DOMAIN t.m

\* the value has a numeric form N(value) whose LaTeX differs from its own
HasNumericForm(v) ==
    CASE Tag(v) = "poly"   -> NumericDiffers(v[2])
      [] Tag(v) = "factor" -> NumericDiffers(v[2])
      [] Tag(v) = "eq"     -> NumericDiffers(v[2]) \/ NumericDiffers(v[3])
      [] Tag(v) = "bool"   -> FALSE
      [] Tag(v) = "float"  -> FALSE
      [] Tag(v) = "matrix" ->
            \E i \in 1..Len(v[2]), j \in 1..Len(v[2][1]) : NumericDiffers(v[2][i][j])
      [] OTHER             -> TRUE

\* getattr(expr, 'is_Integer', False)
ValueIsInteger(v) == Tag(v) = "rank" \/ (Tag(v) = "poly" /\ is_Integer(v[2]))

\* latex(), pretty(): injective renderings of the value
latex(v)  == <<"latex", v>>
pretty(v) == <<"plain", v>>

(***************************************************************************)
(* _make_result (lines 399-420)                                            *)
(***************************************************************************)
\* numeric fields for every value that has a numeric form, whatever
\* skip_numeric and is_Integer say
NumericFieldsAlways(v, skip_numeric) ==
    IF HasNumericForm(v)
    THEN [numeric_latex |-> latex(<<"N", v>>), numeric_plain |-> pretty(<<"N", v>>)]
    ELSE << >>

NumericFields(v, skip_numeric) ==
    IF ~skip_numeric /\ HasNumericForm(v) /\ ~ValueIsInteger(v)
    THEN [numeric_latex |-> latex(<<"N", v>>), numeric_plain |-> pretty(<<"N", v>>)]
    ELSE << >>

_make_result(v, result_type, skip_numeric, extra) ==
    extra @@ NumericFields(v, skip_numeric)
          @@ [ok |-> TRUE, latex |-> latex(v), plain |-> pretty(v), type |-> result_type]

NoExtra == << >>

(***************************************************************************)
(* The handlers.  A handler runs on the tables V (_variables),             *)
(* F (_functions) and C (_symbols_cache) and ends in an outcome: what it   *)
(* returned or raised, and the tables as it left them.  A handler is       *)
(* written as its steps in turn, each step an operator that takes what the *)
(* steps before it computed.                                               *)
(***************************************************************************)
Outcome(ret, V, F, C) == [ret |-> ret, variables |-> V, functions |-> F, symbols_cache |-> C]

\* _safe_parse_latex(tex) with the names it hands to _get_symbol: the
\* expression or the exception, and the cache after the call
Parsed(raw, V, F, C) ==
    [r |-> _safe_parse_latex(raw, V, F), C |-> C \cup ParseCached(raw, V, F)]

Parse(tex, V, F, C) == Parsed(Raw(tex), V, F, C)

\* the outcome of a handler that ends with _make_result(value, ...) unless
\* the resolver raised
Made(res, value, result_type, skip_numeric, extra, V, F, C) ==
    IF ~res.ok THEN Outcome(res, V, F, C)
    ELSE Outcome(Return(_make_result(value, result_type, skip_numeric, extra)), V, F, C)

\* the element list(S)[0] of a set of Symbols: the iteration order of a
\* Python set of Symbols is not fixed by the program; ord picks one
SetOrders == {"ascending", "descending"}

First(S, ord) ==
    IF ord = "ascending"
    THEN CHOOSE x \in S : \A y \in S : x = y \/ NameLess(x, y)
    ELSE CHOOSE x \in S : \A y \in S : x = y \/ NameLess(y, x)

\* int(text)
RECURSIVE DigitsValue(_, _)
DigitsValue(s, acc) ==
    IF s = <<>> THEN acc ELSE DigitsValue(Tail(s), 10 * acc + DigitVal(s[1]))

IntOf(t) ==
    IF t # <<>> /\ t[1] = "-" THEN 0 - DigitsValue(Tail(t), 0)
    ELSE IF t # <<>> /\ t[1] = "+" THEN DigitsValue(Tail(t), 0)
    ELSE DigitsValue(t, 0)

IsIntText(t) ==
    /\ t # <<>>
    /\ \A k \in 1..Len(t) : t[k] \in Digits \/ (k = 1 /\ t[k] \in {"-", "+"} /\ Len(t) > 1)

int(text) ==
    IF IsIntText(Strip(text)) THEN Return(IntOf(Strip(text))) ELSE Raise(ValueError)

(***************************************************************************)
(* _parse_inner (lines 558-578): the parts of a command's argument text    *)
(***************************************************************************)
RECURSIVE SplitTopLevel(_, _, _, _)
SplitTopLevel(s, i, depth, current) ==
    IF i > Len(s) THEN (IF current # <<>> THEN <<Strip(current)>> ELSE <<>>)
    ELSE IF s[i] \in {"(", "{", "["}
         THEN SplitTopLevel(s, i + 1, depth + 1, Append(current, s[i]))
    ELSE IF s[i] \in {")", "}", "]"}
         THEN SplitTopLevel(s, i + 1, depth - 1, Append(current, s[i]))
    ELSE IF s[i] = "," /\ depth = 0
         THEN <<Strip(current)>> \o SplitTopLevel(s, i + 1, depth, <<>>)
    ELSE SplitTopLevel(s, i + 1, depth, Append(current, s[i]))

_parse_inner(inner_tex) == SplitTopLevel(inner_tex, 1, 0, <<>>)

\* parts[k] raises IndexError: the list is shorter
Missing(parts, k) == Len(parts) < k

(***************************************************************************)
(* _handle_command and the _cmd_ handlers (lines 706-842)                  *)
(***************************************************************************)
\* factor(...), expand(...), simplify(...), N(...): lines 711-731 and 760
CommandValue(cmd, e, prec) ==
    CASE IsMatrix(e) /\ cmd \in {"simplify", "expand"} -> MatrixValue(e)
      [] IsMatrix(e) /\ cmd = "factor"    -> <<"factored", MatrixValue(e)>>
      [] IsMatrix(e) /\ cmd = "numerical" -> N(MatrixValue(e), prec)
      [] cmd = "factor"    -> factor(Canon(e))
      [] cmd = "expand"    -> expand(Canon(e))
      [] cmd = "simplify"  -> simplify(e)
      [] cmd = "numerical" -> N(Canon(e), prec)

_cmd_simple_resolved(cmd, prec, V, F, C, res) ==
    Made(res, CommandValue(cmd, res.val, prec), "command", FALSE, NoExtra, V, F, C)

\* the default precision of N(...), line 730
DefaultPrecision == 15

_cmd_simple_parsed(cmd, parts, V, F, p) ==
    LET prec == IF cmd = "numerical" /\ Len(parts) > 1 THEN int(parts[2])
                ELSE Return(DefaultPrecision)
    IN  IF ~p.r.ok THEN Outcome(p.r, V, F, p.C)
        ELSE IF ~prec.ok THEN Outcome(prec, V, F, p.C)
        ELSE _cmd_simple_resolved(cmd, prec.val, V, F, p.C,
                                  _resolve_expr(V, F, p.r.val, {}, 0))

_cmd_simple(cmd, parts, V, F, C) ==
    IF Missing(parts, 1) THEN Outcome(Raise(IndexError), V, F, C)
    ELSE _cmd_simple_parsed(cmd, parts, V, F, Parse(parts[1], V, F, C))

\* the operation variable of a command: parts[1] when given (a Symbol from
\* _get_symbol), else list(expr.free_symbols)[0]
CommandVar(parts, expr, ord) ==
    IF Len(parts) > 1 THEN parts[2] ELSE First(free_symbols(expr), ord)

CommandVarCache(parts, C) == IF Len(parts) > 1 THEN C \cup {parts[2]} ELSE C

NoFreeVariable == "No free variable to solve for"

\* lines 775-782
_cmd_solve_resolved(var, V, F, C, res) ==
    Made(res, solve(res.val, var), "command", TRUE, NoExtra, V, F, C)

\* lines 766-775
_cmd_solve_parsed(parts, V, F, ord, p) ==
    IF ~p.r.ok THEN Outcome(p.r, V, F, p.C)
    ELSE IF Len(parts) < 2 /\ free_symbols(p.r.val) = {}
         THEN Outcome(Return([ok |-> FALSE, error |-> NoFreeVariable]), V, F, p.C)
    ELSE _cmd_solve_resolved(CommandVar(parts, p.r.val, ord), V, F,
                             CommandVarCache(parts, p.C),
                             _resolve_expr(V, F, p.r.val, {CommandVar(parts, p.r.val, ord)}, 0))

_cmd_solve(parts, V, F, C, ord) ==
    IF Missing(parts, 1) THEN Outcome(Raise(IndexError), V, F, C)
    ELSE _cmd_solve_parsed(parts, V, F, ord, Parse(parts[1], V, F, C))

\* lines 791-793
_cmd_diff_resolved(var, order, V, F, C, res) ==
    Made(res, diff(Canon(res.val), var, order), "command", FALSE, NoExtra, V, F, C)

\* lines 788-791
_cmd_diff_parsed(parts, V, F, ord, p) ==
    LET order == IF Len(parts) > 2 THEN int(parts[3]) ELSE Return(1)
    IN  IF ~p.r.ok THEN Outcome(p.r, V, F, p.C)
        ELSE IF Len(parts) <= 1 /\ free_symbols(p.r.val) = {}
             THEN Outcome(Raise(IndexError), V, F, p.C)
        ELSE IF ~order.ok THEN Outcome(order, V, F, CommandVarCache(parts, p.C))
        ELSE _cmd_diff_resolved(CommandVar(parts, p.r.val, ord), order.val, V, F,
                                CommandVarCache(parts, p.C),
                                _resolve_expr(V, F, p.r.val,
                                              {CommandVar(parts, p.r.val, ord)}, 0))

_cmd_diff(parts, V, F, C, ord) ==
    IF Missing(parts, 1) THEN Outcome(Raise(IndexError), V, F, C)
    ELSE _cmd_diff_parsed(parts, V, F, ord, Parse(parts[1], V, F, C))

\* lines 802-808, the definite integral: a and b are parsed in turn
_cmd_integrate_bounds(var, V, F, body, pa, pb) ==
    IF ~pa.r.ok THEN Outcome(pa.r, V, F, pa.C)
    ELSE IF ~pb.r.ok THEN Outcome(pb.r, V, F, pa.C \cup pb.C)
    ELSE Outcome(Return(_make_result(
                    integrate_definite(body, var, Canon(pa.r.val), Canon(pb.r.val)),
                    "command", FALSE, NoExtra)), V, F, pa.C \cup pb.C)

\* lines 801-808
_cmd_integrate_resolved(parts, var, V, F, C, res) ==
    IF ~res.ok \/ Len(parts) < 4
    THEN Made(res, integrate(Canon(res.val), var), "command", FALSE, NoExtra, V, F, C)
    ELSE _cmd_integrate_bounds(var, V, F, Canon(res.val),
                               Parse(parts[3], V, F, C), Parse(parts[4], V, F, C))

\* lines 799-801
_cmd_integrate_parsed(parts, V, F, ord, p) ==
    IF ~p.r.ok THEN Outcome(p.r, V, F, p.C)
    ELSE IF Len(parts) <= 1 /\ free_symbols(p.r.val) = {}
         THEN Outcome(Raise(IndexError), V, F, p.C)
    ELSE _cmd_integrate_resolved(parts, CommandVar(parts, p.r.val, ord), V, F,
                                 CommandVarCache(parts, p.C),
                                 _resolve_expr(V, F, p.r.val,
                                               {CommandVar(parts, p.r.val, ord)}, 0))

_cmd_integrate(parts, V, F, C, ord) ==
    IF Missing(parts, 1) THEN Outcome(Raise(IndexError), V, F, C)
    ELSE _cmd_integrate_parsed(parts, V, F, ord, Parse(parts[1], V, F, C))

\* lines 817-819
_cmd_limit_point(var, V, F, body, pp) ==
    Made(pp.r, limit(body, var, Canon(pp.r.val)), "command", FALSE, NoExtra, V, F, pp.C)

\* lines 816-817
_cmd_limit_resolved(parts, V, F, C, res) ==
    IF ~res.ok THEN Outcome(res, V, F, C)
    ELSE IF Missing(parts, 3) THEN Outcome(Raise(IndexError), V, F, C)
    ELSE _cmd_limit_point(parts[2], V, F, Canon(res.val), Parse(parts[3], V, F, C))

\* lines 814-816
_cmd_limit_parsed(parts, V, F, p) ==
    IF ~p.r.ok THEN Outcome(p.r, V, F, p.C)
    ELSE IF Missing(parts, 2) THEN Outcome(Raise(IndexError), V, F, p.C)
    ELSE _cmd_limit_resolved(parts, V, F, p.C \cup {parts[2]},
                             _resolve_expr(V, F, p.r.val, {parts[2]}, 0))

_cmd_limit(parts, V, F, C) ==
    IF Missing(parts, 1) THEN Outcome(Raise(IndexError), V, F, C)
    ELSE _cmd_limit_parsed(parts, V, F, Parse(parts[1], V, F, C))

\* the default number of terms of series(...), line 829
DefaultSeriesTerms == 6

\* lines 828-831
_cmd_series_point(parts, var, V, F, body, pp) ==
    LET n == IF Len(parts) > 3 THEN int(parts[4]) ELSE Return(DefaultSeriesTerms)
    IN  IF ~pp.r.ok THEN Outcome(pp.r, V, F, pp.C)
        ELSE IF ~n.ok THEN Outcome(n, V, F, pp.C)
        ELSE Outcome(Return(_make_result(series(body, var, Canon(pp.r.val), n.val),
                                         "command", TRUE, NoExtra)), V, F, pp.C)

\* lines 827-828: the point is S.Zero when it is not given
_cmd_series_resolved(parts, var, V, F, C, res) ==
    IF ~res.ok THEN Outcome(res, V, F, C)
    ELSE _cmd_series_point(parts, var, V, F, Canon(res.val),
                           IF Len(parts) > 2 THEN Parse(parts[3], V, F, C)
                           ELSE [r |-> Return(Num(0)), C |-> C])

\* lines 825-827
_cmd_series_parsed(parts, V, F, ord, p) ==
    IF ~p.r.ok THEN Outcome(p.r, V, F, p.C)
    ELSE IF Len(parts) <= 1 /\ free_symbols(p.r.val) = {}
         THEN Outcome(Raise(IndexError), V, F, p.C)
    ELSE _cmd_series_resolved(parts, CommandVar(parts, p.r.val, ord), V, F,
                              CommandVarCache(parts, p.C),
                              _resolve_expr(V, F, p.r.val,
                                            {CommandVar(parts, p.r.val, ord)}, 0))

_cmd_series(parts, V, F, C, ord) ==
    IF Missing(parts, 1) THEN Outcome(Raise(IndexError), V, F, C)
    ELSE _cmd_series_parsed(parts, V, F, ord, Parse(parts[1], V, F, C))

\* expr.subs(old, new) for an arbitrary old: a Symbol is replaced in the
\* tree; any other pattern is left to the engine
subs(e, old, new) ==
    IF Tag(old) = "sym" THEN simplify(Subs1(e, old[2], new))
    ELSE <<"subs", Canon(e), Canon(old), Canon(new)>>

\* lines 839-842
_cmd_subs_new(e, old, V, F, pn) ==
    Made(pn.r, subs(e, old, pn.r.val), "command", FALSE, NoExtra, V, F, pn.C)

\* lines 838-839
_cmd_subs_old(parts, e, V, F, po) ==
    IF ~po.r.ok THEN Outcome(po.r, V, F, po.C)
    ELSE IF Missing(parts, 3) THEN Outcome(Raise(IndexError), V, F, po.C)
    ELSE _cmd_subs_new(e, po.r.val, V, F, Parse(parts[3], V, F, po.C))

\* lines 837-838
_cmd_subs_resolved(parts, V, F, C, res) ==
    IF ~res.ok THEN Outcome(res, V, F, C)
    ELSE IF Missing(parts, 2) THEN Outcome(Raise(IndexError), V, F, C)
    ELSE _cmd_subs_old(parts, res.val, V, F, Parse(parts[2], V, F, C))

_cmd_subs_parsed(parts, V, F, p) ==
    IF ~p.r.ok THEN Outcome(p.r, V, F, p.C)
    ELSE _cmd_subs_resolved(parts, V, F, p.C, _resolve_expr(V, F, p.r.val, {}, 0))

_cmd_subs(parts, V, F, C) ==
    IF Missing(parts, 1) THEN Outcome(Raise(IndexError), V, F, C)
    ELSE _cmd_subs_parsed(parts, V, F, Parse(parts[1], V, F, C))

(***************************************************************************)
(* Matrices (lines 308-360 and 847-1065).  A matrix is the tree            *)
(* <<"matrix", rows>>, rows a non-empty sequence of rows of one length,    *)
(* each a sequence of expression trees.  Its value is <<"matrix", rows>>   *)
(* over canonical forms.  Sums and products of matrices are not modelled:  *)
(* a matrix is a whole expression, or the value of a variable.             *)
(***************************************************************************)
\* _is_matrix_expr(tex): \begin{..matrix} ... \end{..matrix}
MatrixEnvs == {<<>>, <<"p">>, <<"b">>, <<"v">>, <<"B">>, <<"V">>, <<"s", "m", "a", "l", "l">>}

C_begin == <<BSL, "b", "e", "g", "i", "n", "{">>
C_end == <<BSL, "e", "n", "d", "{">>
C_matrix == <<"m", "a", "t", "r", "i", "x", "}">>

MatrixAt(s) ==
    \E e1 \in MatrixEnvs, e2 \in MatrixEnvs :
        /\ HasAt(s, 1, C_begin \o e1 \o C_matrix)
        /\ Len(s) > Len(C_begin \o e1 \o C_matrix) + Len(C_end \o e2 \o C_matrix)
        /\ HasAt(s, Len(s) - Len(C_end \o e2 \o C_matrix) + 1, C_end \o e2 \o C_matrix)

_is_matrix_expr(tex) == MatrixAt(Strip(tex))

\* _MATRIX_ENV_RE.match(s).group(2): the text between \begin{..} and the
\* \end{..} that closes the string
_MATRIX_ENV_RE(s) ==
    IF MatrixAt(s)
    THEN LET e1 == CHOOSE e \in MatrixEnvs : HasAt(s, 1, C_begin \o e \o C_matrix)
             e2 == CHOOSE e \in MatrixEnvs :
                      HasAt(s, Len(s) - Len(C_end \o e \o C_matrix) + 1, C_end \o e \o C_matrix)
         IN  [m |-> TRUE,
              g2 |-> SubSeq(s, Len(C_begin \o e1 \o C_matrix) + 1,
                            Len(s) - Len(C_end \o e2 \o C_matrix))]
    ELSE NoMatch

\* re.split(r'\\\\', content)
RECURSIVE SplitRows(_, _)
SplitRows(s, current) ==
    IF s = <<>> THEN <<current>>
    ELSE IF HasAt(s, 1, <<BSL, BSL>>) THEN <<current>> \o SplitRows(From(s, 3), <<>>)
    ELSE SplitRows(Tail(s), Append(current, s[1]))

\* [c.strip() for c in row_str.split('&')]
RECURSIVE SplitCells(_, _)
SplitCells(s, current) ==
    IF s = <<>> THEN <<Strip(current)>>
    ELSE IF s[1] = "&" THEN <<Strip(current)>> \o SplitCells(Tail(s), <<>>)
    ELSE SplitCells(Tail(s), Append(current, s[1]))

NonBlank(row_str) == Strip(row_str) # <<>>

\* lines 324-336: the cell texts, row by row, of the rows that are not blank
CellTexts(content) ==
    [k \in 1..Len(SelectSeq(SplitRows(content, <<>>), NonBlank)) |->
        SplitCells(Strip(SelectSeq(SplitRows(content, <<>>), NonBlank)[k]), <<>>)]

\* the rows one after the other
RECURSIVE Flatten(_)
Flatten(rows) == IF rows = <<>> THEN <<>> ELSE Head(rows) \o Flatten(Tail(rows))

NotMatrixEnv == "Not a recognized matrix environment"
EmptyMatrix  == "Empty matrix"
JaggedMatrix == "Jagged matrix"

\* lines 331-335: S.Zero for an empty cell, else _safe_parse_latex(cell)
ParseCell(cell, V, F) ==
    IF cell = <<>> THEN Return(Num(0)) ELSE _safe_parse_latex(Raw(cell), V, F)

\* the names the cells cells[1..upto] hand to _get_symbol
CellsCached(cells, upto, V, F) ==
    UNION {ParseCached(Raw(cells[k]), V, F) : k \in {j \in 1..upto : cells[j] # <<>>}}

\* lines 337-346, on the cell texts and the parsed cells in reading order
ParsedMatrix(texts, cells, V, F, C) ==
    IF ~AllOk(cells)
    THEN [r |-> FirstExc(cells),
          C |-> C \cup CellsCached(Flatten(texts),
                                   CHOOSE k \in 1..Len(cells) :
                                       ~cells[k].ok /\ \A j \in 1..(k - 1) : cells[j].ok,
                                   V, F)]
    ELSE IF texts = <<>> THEN [r |-> Raise(EmptyMatrix), C |-> C]
    ELSE IF \E i \in 1..Len(texts) : Len(texts[i]) # Len(texts[1])
         THEN [r |-> Raise(JaggedMatrix),
               C |-> C \cup CellsCached(Flatten(texts), Len(cells), V, F)]
    ELSE [r |-> Return(Matrix([i \in 1..Len(texts) |->
                                  [j \in 1..Len(texts[i]) |->
                                      ParseCell(texts[i][j], V, F).val]])),
          C |-> C \cup CellsCached(Flatten(texts), Len(cells), V, F)]

\* lines 322-336
MatrixContent(content, V, F, C) ==
    ParsedMatrix(CellTexts(content),
                 [k \in 1..Len(Flatten(CellTexts(content))) |->
                     ParseCell(Flatten(CellTexts(content))[k], V, F)],
                 V, F, C)

\* _parse_matrix_latex(tex): the matrix or the exception, and the cache
_parse_matrix_latex(tex, V, F, C) ==
    IF ~_MATRIX_ENV_RE(Strip(tex)).m THEN [r |-> Raise(NotMatrixEnv), C |-> C]
    ELSE MatrixContent(_MATRIX_ENV_RE(Strip(tex)).g2, V, F, C)

\* mat.rows, mat.cols of a matrix value; the inverse and the reduced row
\* echelon form of a matrix have its shape
Rows(v) == IF Tag(v) = "matrix" THEN Len(v[2]) ELSE Len(v[2][2])
Cols(v) == IF Tag(v) = "matrix" THEN Len(v[2][1]) ELSE Len(v[2][2][1])

\* mat.T
Transposed(v) ==
    <<"matrix", [j \in 1..Cols(v) |-> [i \in 1..Rows(v) |-> v[2][i][j]]]>>

\* the square rows without row i and column j
Minor(rows, i, j) ==
    [a \in 1..(Len(rows) - 1) |->
        [b \in 1..(Len(rows) - 1) |->
            rows[IF a < i THEN a ELSE a + 1][IF b < j THEN b ELSE b + 1]]]

Sign(k) == IF k % 2 = 0 THEN ROne ELSE <<-1, 1>>

\* mat.det(), by expansion along the first row
RECURSIVE Det(_)
Det(rows) ==
    IF Len(rows) = 0 THEN PConst(ROne)
    ELSE PSumOver([j \in 1..Len(rows) |->
                      PScale(PMul(rows[1][j], Det(Minor(rows, 1, j))), Sign(1 + j))],
                  1, Len(rows))

\* p / d for d # 0, as the quotient of two canonical forms
PDivide(p, d) ==
    IF IsConstPoly(d) THEN PScale(p, <<ConstOf(d)[2], ConstOf(d)[1]>>)
    ELSE PMul(p, PAtom(<<"inv", d>>))

\* mat.inv() of a square matrix with a determinant that is not zero
Inverse(v) ==
    <<"matrix", [i \in 1..Rows(v) |->
                    [j \in 1..Rows(v) |->
                        PDivide(PScale(Det(Minor(v[2], j, i)), Sign(i + j)), Det(v[2]))]]>>

\* trace(mat) of a square matrix
Trace(v) == PSumOver([i \in 1..Rows(v) |-> v[2][i][i]], 1, Rows(v))

\* _make_matrix_result (lines 903-917)
_make_matrix_result(v, result_type, extra) ==
    extra @@ [ok |-> TRUE, latex |-> latex(v), plain |-> pretty(v), type |-> result_type,
              is_matrix |-> TRUE, rows |-> Rows(v), cols |-> Cols(v)]

\* mat.applyfunc(lambda e: _resolve_expr(e)): the entries resolved in
\* reading order
ResolvedEntries(e, V, F) ==
    [k \in 1..Len(Flatten(e[2])) |-> _resolve_expr(V, F, Flatten(e[2])[k], {}, 0)]

Applied(e, entries) ==
    IF ~AllOk(entries) THEN FirstExc(entries)
    ELSE Return(Matrix([i \in 1..Len(e[2]) |->
                           [j \in 1..Len(e[2][1]) |->
                               entries[(i - 1) * Len(e[2][1]) + j].val]]))

applyfunc(e, V, F) == Applied(e, ResolvedEntries(e, V, F))

\* the except clause of lines 882-888 and 891-900: str(exc) as the error
Failed(exc) == [ok |-> FALSE, error |-> exc.exc]

\* _handle_matrix_literal (lines 880-888)
_handle_matrix_literal_applied(V, F, C, mat) ==
    IF ~mat.ok THEN Outcome(Return(Failed(mat)), V, F, C)
    ELSE Outcome(Return(_make_matrix_result(MatrixValue(mat.val), "value", NoExtra)), V, F, C)

_handle_matrix_literal_parsed(V, F, p) ==
    IF ~p.r.ok THEN Outcome(Return(Failed(p.r)), V, F, p.C)
    ELSE _handle_matrix_literal_applied(V, F, p.C, applyfunc(p.r.val, V, F))

_handle_matrix_literal(tex, V, F, C) ==
    _handle_matrix_literal_parsed(V, F, _parse_matrix_latex(tex, V, F, C))

\* _handle_matrix_assignment (lines 891-900)
_handle_matrix_assignment_applied(name, V, F, C, mat) ==
    IF ~mat.ok THEN Outcome(Return(Failed(mat)), V, F, C)
    ELSE Outcome(Return(_make_matrix_result(MatrixValue(mat.val), "assignment",
                                            [name |-> name])),
                 [n \in DOMAIN V \cup {name} |->
                     IF n = name THEN [expr |-> mat.val, deps |-> {}] ELSE V[n]],
                 F, C)

_handle_matrix_assignment_parsed(name, V, F, p) ==
    IF ~p.r.ok THEN Outcome(Return(Failed(p.r)), V, F, p.C)
    ELSE _handle_matrix_assignment_applied(name, V, F, p.C, applyfunc(p.r.val, V, F))

_handle_matrix_assignment(name, matrix_tex, V, F, C) ==
    _handle_matrix_assignment_parsed(name, V, F, _parse_matrix_latex(matrix_tex, V, F, C))

CannotInterpret == "Cannot interpret as a matrix"

\* lines 870-876: each free symbol that is a variable replaced in turn, in
\* the order the set of free symbols is iterated
RECURSIVE SubsEach(_, _, _, _)
SubsEach(e, names, V, ord) ==
    IF names = {} THEN Return(e)
    ELSE IF ~_resolve_variable(V, First(names, ord), {}).ok
         THEN _resolve_variable(V, First(names, ord), {})
    ELSE SubsEach(Subs1(e, First(names, ord), _resolve_variable(V, First(names, ord), {}).val),
                  names \ {First(names, ord)}, V, ord)

\* _resolve_matrix_expr (lines 867-877)
_resolve_matrix_expr_parsed(V, ord, p) ==
    IF ~p.r.ok THEN p
    ELSE [r |-> SubsEach(p.r.val, free_symbols(p.r.val) \cap DOMAIN V, V, ord), C |-> p.C]

_resolve_matrix_expr(tex, V, F, C, ord) ==
    _resolve_matrix_expr_parsed(V, ord, Parse(tex, V, F, C))

\* lines 859-864: the expression, whatever it is, or ValueError
Tried(res) == IF res.r.ok THEN res ELSE [r |-> Raise(CannotInterpret), C |-> res.C]

\* lines 853-858, for an argument that is no matrix literal
_resolve_matrix_arg_named(tex, name, V, F, C, ord) ==
    IF name \in DOMAIN V /\ ~_resolve_variable(V, name, {}).ok
    THEN [r |-> _resolve_variable(V, name, {}), C |-> C]
    ELSE IF name \in DOMAIN V /\ IsMatrix(_resolve_variable(V, name, {}).val)
    THEN [r |-> _resolve_variable(V, name, {}), C |-> C]
    ELSE Tried(_resolve_matrix_expr(tex, V, F, C, ord))

\* _resolve_matrix_arg (lines 847-864)
_resolve_matrix_arg(tex, V, F, C, ord) ==
    IF _is_matrix_expr(Strip(tex)) THEN _parse_matrix_latex(Strip(tex), V, F, C)
    ELSE _resolve_matrix_arg_named(Strip(tex), Strip(StripBackslashes(Strip(tex))),
                                   V, F, C, ord)

\* the matrix commands (lines 920-1065).  a is the argument as
\* _resolve_matrix_arg(parts[0]) left it: the value or the exception, and
\* the cache
MatrixArg(parts, V, F, C, ord) ==
    IF Missing(parts, 1) THEN [r |-> Raise(IndexError), C |-> C]
    ELSE _resolve_matrix_arg(parts[1], V, F, C, ord)

NotAMatrix == [ok |-> FALSE, error |-> "Argument is not a matrix"]

NotSquare(cmd) == [ok |-> FALSE, error |-> <<cmd, "requires a square matrix">>]

Singular == [ok |-> FALSE, error |-> "Matrix is singular or non-invertible"]

NonSquareTrace == "Trace of a non-square matrix"

\* the argument raised, or is no MatrixBase
BadArg(a) == ~a.r.ok \/ ~IsMatrix(a.r.val)

BadArgOutcome(a, V, F) ==
    IF ~a.r.ok THEN Outcome(a.r, V, F, a.C) ELSE Outcome(Return(NotAMatrix), V, F, a.C)

IsSquare(e) == Len(e[2]) = Len(e[2][1])

\* a record of two renderings, built by the handler itself (lines 970-979,
\* 991-1004, 1044-1051 and 1058-1065)
Rendered(v) == [ok |-> TRUE, latex |-> latex(v), plain |-> pretty(v), type |-> "command"]

_cmd_mat_det(V, F, a) ==
    IF BadArg(a) THEN BadArgOutcome(a, V, F)
    ELSE IF ~IsSquare(a.r.val) THEN Outcome(Return(NotSquare("det()")), V, F, a.C)
    ELSE Outcome(Return(_make_result(Poly(Det(MatrixValue(a.r.val)[2])), "command", FALSE,
                                     NoExtra)), V, F, a.C)

_cmd_mat_inv(V, F, a) ==
    IF BadArg(a) THEN BadArgOutcome(a, V, F)
    ELSE IF ~IsSquare(a.r.val) THEN Outcome(Return(NotSquare("inv()")), V, F, a.C)
    ELSE IF Det(MatrixValue(a.r.val)[2]) = PZero THEN Outcome(Return(Singular), V, F, a.C)
    ELSE Outcome(Return(_make_matrix_result(Inverse(MatrixValue(a.r.val)), "command", NoExtra)),
                 V, F, a.C)

\* a trace that sums the leading diagonal of a matrix of any shape
LeadingDiagonalSum(V, F, a) ==
    IF BadArg(a) THEN BadArgOutcome(a, V, F)
    ELSE Outcome(Return(_make_result(Poly(Trace(MatrixValue(a.r.val))), "command", FALSE,
                                     NoExtra)), V, F, a.C)


\* trace(mat) raises for a matrix that is not square
_cmd_mat_trace(V, F, a) ==
    IF BadArg(a) THEN BadArgOutcome(a, V, F)
    ELSE IF ~IsSquare(a.r.val) THEN Outcome(Raise(NonSquareTrace), V, F, a.C)
    ELSE Outcome(Return(_make_result(Poly(Trace(MatrixValue(a.r.val))), "command", FALSE,
                                     NoExtra)), V, F, a.C)

_cmd_mat_transpose(V, F, a) ==
    IF BadArg(a) THEN BadArgOutcome(a, V, F)
    ELSE Outcome(Return(_make_matrix_result(Transposed(MatrixValue(a.r.val)), "command",
                                            NoExtra)), V, F, a.C)

_cmd_mat_eigenvals(V, F, a) ==
    IF BadArg(a) THEN BadArgOutcome(a, V, F)
    ELSE IF ~IsSquare(a.r.val) THEN Outcome(Return(NotSquare("eigenvals()")), V, F, a.C)
    ELSE Outcome(Return(Rendered(<<"eigenvals", MatrixValue(a.r.val)>>)), V, F, a.C)

_cmd_mat_eigenvects(V, F, a) ==
    IF BadArg(a) THEN BadArgOutcome(a, V, F)
    ELSE IF ~IsSquare(a.r.val) THEN Outcome(Return(NotSquare("eigenvects()")), V, F, a.C)
    ELSE Outcome(Return(Rendered(<<"eigenvects", MatrixValue(a.r.val)>>)), V, F, a.C)

_cmd_mat_rank(V, F, a) ==
    IF BadArg(a) THEN BadArgOutcome(a, V, F)
    ELSE Outcome(Return(_make_result(<<"rank", MatrixValue(a.r.val)>>, "command", FALSE,
                                     NoExtra)), V, F, a.C)

\* lines 1017-1023: the record of the matrix, with the pivots put in
_cmd_mat_rref(V, F, a) ==
    IF BadArg(a) THEN BadArgOutcome(a, V, F)
    ELSE Outcome(Return(
            [pivots |-> <<"pivots", MatrixValue(a.r.val)>>,
             plain  |-> <<pretty(<<"rref", MatrixValue(a.r.val)>>), "Pivot columns",
                          <<"pivots", MatrixValue(a.r.val)>> >>]
            @@ _make_matrix_result(<<"rref", MatrixValue(a.r.val)>>, "command", NoExtra)),
                 V, F, a.C)

_cmd_mat_charpoly(V, F, a) ==
    IF BadArg(a) THEN BadArgOutcome(a, V, F)
    ELSE IF ~IsSquare(a.r.val) THEN Outcome(Return(NotSquare("charpoly()")), V, F, a.C)
    ELSE Outcome(Return(_make_result(<<"charpoly", MatrixValue(a.r.val)>>, "command", FALSE,
                                     NoExtra)), V, F, a.C)

_cmd_mat_nullspace(V, F, a) ==
    IF BadArg(a) THEN BadArgOutcome(a, V, F)
    ELSE Outcome(Return(Rendered(<<"nullspace", MatrixValue(a.r.val)>>)), V, F, a.C)

_cmd_mat_colspace(V, F, a) ==
    IF BadArg(a) THEN BadArgOutcome(a, V, F)
    ELSE Outcome(Return(Rendered(<<"colspace", MatrixValue(a.r.val)>>)), V, F, a.C)

\* lines 737-758
MatrixCommand(cmd, V, F, a) ==
    CASE cmd = "det"        -> _cmd_mat_det(V, F, a)
      [] cmd = "inv"        -> _cmd_mat_inv(V, F, a)
      [] cmd = "trace"      -> _cmd_mat_trace(V, F, a)
      [] cmd = "transpose"  -> _cmd_mat_transpose(V, F, a)
      [] cmd = "eigenvals"  -> _cmd_mat_eigenvals(V, F, a)
      [] cmd = "eigenvects" -> _cmd_mat_eigenvects(V, F, a)
      [] cmd = "rank"       -> _cmd_mat_rank(V, F, a)
      [] cmd = "rref"       -> _cmd_mat_rref(V, F, a)
      [] cmd = "charpoly"   -> _cmd_mat_charpoly(V, F, a)
      [] cmd = "nullspace"  -> _cmd_mat_nullspace(V, F, a)
      [] cmd = "colspace"   -> _cmd_mat_colspace(V, F, a)

MatrixCommands ==
    {"det", "inv", "trace", "transpose", "eigenvals", "eigenvects", "rank", "rref",
     "charpoly", "nullspace", "colspace"}

HandleParts(cmd, parts, V, F, C, ord) ==
    CASE cmd = "solve"     -> _cmd_solve(parts, V, F, C, ord)
      [] cmd \in {"factor", "expand", "simplify", "numerical"} ->
                              _cmd_simple(cmd, parts, V, F, C)
      [] cmd = "diff"      -> _cmd_diff(parts, V, F, C, ord)
      [] cmd = "integrate" -> _cmd_integrate(parts, V, F, C, ord)
      [] cmd = "limit"     -> _cmd_limit(parts, V, F, C)
      [] cmd = "series"    -> _cmd_series(parts, V, F, C, ord)
      [] cmd = "subs"      -> _cmd_subs(parts, V, F, C)
      [] cmd \in MatrixCommands -> MatrixCommand(cmd, V, F, MatrixArg(parts, V, F, C, ord))

_handle_command(cmd, inner_tex, V, F, C, ord) ==
    HandleParts(cmd, _parse_inner(inner_tex), V, F, C, ord)

(***************************************************************************)
(* The handlers of the LaTeX calculus notation (lines 1070-1159)           *)
(***************************************************************************)
\* re.sub(r'\s*d([a-zA-Z_]\w*)\s*$', '', body).strip(), and with
\* d([a-zA-Z]) for long = FALSE
DVarAt(s, i, long) ==
    /\ SkipSpaces(s, i) + 1 <= Len(s)
    /\ s[SkipSpaces(s, i)] = "d"
    /\ s[SkipSpaces(s, i) + 1] \in (IF long THEN Letters \cup {"_"} ELSE Letters)
    /\ SkipSpaces(s, IF long THEN SkipWord(s, SkipSpaces(s, i) + 1)
                     ELSE SkipSpaces(s, i) + 2) = Len(s) + 1

StripDVar(s, long) ==
    IF \E i \in 1..Len(s) : DVarAt(s, i, long)
    THEN Strip(SubSeq(s, 1, (CHOOSE i \in 1..Len(s) :
                    DVarAt(s, i, long) /\ \A j \in 1..(i - 1) : ~DVarAt(s, j, long)) - 1))
    ELSE Strip(s)

\* Dummy('x'): a symbol equal to no name
Dummy == <<"Dummy">>

\* lines 1081-1087: x when it is free in the resolved body, else the first
\* free symbol, else a Dummy
IntegrationVar(free, ord) ==
    IF <<"x">> \in free THEN <<"x">>
    ELSE IF free # {} THEN First(free, ord) ELSE Dummy

\* lines 1090-1091
_handle_latex_int_resolved(var, lower, upper, V, F, C, res) ==
    Made(res, integrate_definite(Canon(res.val), var, Canon(lower), Canon(upper)),
         "value", FALSE, NoExtra, V, F, C)

\* lines 1081-1089
_handle_latex_int_checked(expr, lower, upper, V, F, C, ord, check) ==
    IF ~check.ok THEN Outcome(check, V, F, C)
    ELSE _handle_latex_int_resolved(
            IntegrationVar(free_symbols(check.val), ord), lower, upper, V, F, C,
            _resolve_expr(V, F, expr, {IntegrationVar(free_symbols(check.val), ord)}, 0))

\* lines 1075-1080
_handle_latex_int_parsed(V, F, ord, pl, pu, pb) ==
    IF ~pl.r.ok THEN Outcome(pl.r, V, F, pl.C)
    ELSE IF ~pu.r.ok THEN Outcome(pu.r, V, F, pl.C \cup pu.C)
    ELSE IF ~pb.r.ok THEN Outcome(pb.r, V, F, pl.C \cup pu.C \cup pb.C)
    ELSE _handle_latex_int_checked(pb.r.val, pl.r.val, pu.r.val, V, F,
                                   pl.C \cup pu.C \cup pb.C, ord,
                                   _resolve_expr(V, F, pb.r.val, {}, 0))

_handle_latex_int(lower_tex, upper_tex, body_tex, V, F, C, ord) ==
    _handle_latex_int_parsed(V, F, ord, Parse(lower_tex, V, F, C), Parse(upper_tex, V, F, C),
                             Parse(StripDVar(body_tex, TRUE), V, F, C))

\* re.match(r'^\s*([a-zA-Z_]\w*)\s*=\s*(.+)$', lower_tex)
LowerAssign(s) ==
    LET p == SkipSpaces(s, 1)
        r == SkipSpaces(s, SkipWord(s, SkipSpaces(s, 1)))
    IN  IF p <= Len(s) /\ s[p] \in Letters \cup {"_"} /\ r <= Len(s) /\ s[r] = "="
           /\ TrailingGroup(s, r + 1) # <<>>
        THEN [m |-> TRUE, g1 |-> SubSeq(s, p, SkipWord(s, p) - 1),
              g2 |-> TrailingGroup(s, r + 1)]
        ELSE NoMatch

CannotDetermine == "Cannot determine variable"

C_sum_op == <<"s", "u", "m">>

\* lines 1124-1131
_handle_latex_sum_prod_resolved(op, var, lower, upper, V, F, C, res) ==
    Made(res,
         IF op = C_sum_op THEN summation(Canon(res.val), var, Canon(lower), Canon(upper))
         ELSE product(Canon(res.val), var, Canon(lower), Canon(upper)),
         "value", FALSE, NoExtra, V, F, C)

\* lines 1105-1122; assign is the match of the lower limit (lines 1100-1104)
_handle_latex_sum_prod_parsed(op, assign, V, F, C, ord, pl, pu, pb) ==
    IF ~pl.r.ok THEN Outcome(pl.r, V, F, C \cup pl.C)
    ELSE IF ~pu.r.ok THEN Outcome(pu.r, V, F, C \cup pl.C \cup pu.C)
    ELSE IF ~pb.r.ok THEN Outcome(pb.r, V, F, C \cup pl.C \cup pu.C \cup pb.C)
    ELSE IF ~assign.m /\ free_symbols(pb.r.val) = {}
         THEN Outcome(Return([ok |-> FALSE, error |-> CannotDetermine]), V, F,
                      C \cup pl.C \cup pu.C \cup pb.C)
    ELSE _handle_latex_sum_prod_resolved(
            op, IF assign.m THEN assign.g1 ELSE First(free_symbols(pb.r.val), ord),
            pl.r.val, pu.r.val, V, F, C \cup pl.C \cup pu.C \cup pb.C,
            _resolve_expr(V, F, pb.r.val,
                          {IF assign.m THEN assign.g1 ELSE First(free_symbols(pb.r.val), ord)},
                          0))

\* lines 1097-1111
_handle_latex_sum_prod_lower(op, assign, lower_tex, upper_tex, body_tex, V, F, C, ord) ==
    _handle_latex_sum_prod_parsed(
        op, assign, V, F, IF assign.m THEN C \cup {assign.g1} ELSE C, ord,
        Parse(IF assign.m THEN assign.g2 ELSE lower_tex, V, F, C),
        Parse(upper_tex, V, F, C), Parse(StripDVar(body_tex, FALSE), V, F, C))

\* the lower limit taken as an expression even when it has the form var = value
LowerAsExpression(op, lower_tex, upper_tex, body_tex, V, F, C, ord) ==
    _handle_latex_sum_prod_lower(op, NoMatch, lower_tex, upper_tex, body_tex, V, F, C, ord)

_handle_latex_sum_prod(op, lower_tex, upper_tex, body_tex, V, F, C, ord) ==
    _handle_latex_sum_prod_lower(op, LowerAssign(lower_tex), lower_tex, upper_tex, body_tex,
                                 V, F, C, ord)

\* lines 1139-1141
_handle_latex_limit_resolved(var, point, V, F, C, res) ==
    Made(res, limit(Canon(res.val), var, Canon(point)), "value", FALSE, NoExtra, V, F, C)

\* lines 1136-1139
_handle_latex_limit_parsed(var, V, F, C, pp, pb) ==
    IF ~pp.r.ok THEN Outcome(pp.r, V, F, C \cup pp.C)
    ELSE IF ~pb.r.ok THEN Outcome(pb.r, V, F, C \cup pp.C \cup pb.C)
    ELSE _handle_latex_limit_resolved(var, pp.r.val, V, F, C \cup pp.C \cup pb.C,
                                      _resolve_expr(V, F, pb.r.val, {var}, 0))

_handle_latex_limit(var_tex, point_tex, body_tex, V, F, C) ==
    _handle_latex_limit_parsed(Strip(var_tex), V, F, C \cup {Strip(var_tex)},
                               Parse(Strip(point_tex), V, F, C), Parse(body_tex, V, F, C))

\* lines 1149-1158
_handle_latex_limit_bare_resolved(V, F, C, res) ==
    IF ~res.ok THEN Outcome(res, V, F, C)
    ELSE Outcome(Return([ok |-> TRUE, latex |-> <<"lim", latex(simplify(res.val))>>,
                         plain |-> <<"lim", pretty(simplify(res.val))>>,
                         type |-> "value"]), V, F, C)

_handle_latex_limit_bare_parsed(V, F, p) ==
    IF ~p.r.ok THEN Outcome(p.r, V, F, p.C)
    ELSE _handle_latex_limit_bare_resolved(V, F, p.C, _resolve_expr(V, F, p.r.val, {}, 0))

_handle_latex_limit_bare(body_tex, V, F, C) ==
    _handle_latex_limit_bare_parsed(V, F, Parse(body_tex, V, F, C))

(***************************************************************************)
(* The assignment handlers (lines 1164-1200)                               *)
(***************************************************************************)
\* a table with one entry put
Put(table, name, entry) ==
    [n \in DOMAIN table \cup {name} |-> IF n = name THEN entry ELSE table[n]]

\* an assignment that answers with the record of a plain read: type
\* "value" and no name
AssignedAsValue(name, V1, F, C, resolved) ==
    Made(resolved, simplify(resolved.val), "value", FALSE, NoExtra, V1, F, C)

\* lines 1182-1185, on the table with the new binding
_handle_var_assignment_stored(name, V1, F, C, resolved) ==
    Made(resolved, simplify(resolved.val), "assignment", FALSE, [name |-> name], V1, F, C)

\* lines 1179-1182
_handle_var_assignment_checked(name, V1, F, C) ==
    _handle_var_assignment_stored(name, V1, F, C, _resolve_variable(V1, name, {}))

\* an assignment that stores the body resolved at assignment time instead of
\* the body as parsed (a snapshot)
AssignSnapshot(name, V, F, p) ==
    IF ~p.r.ok THEN Outcome(p.r, V, F, p.C)
    ELSE IF ~_resolve_expr(V, F, p.r.val, {}, 0).ok
         THEN Outcome(_resolve_expr(V, F, p.r.val, {}, 0), V, F, p.C)
    ELSE _handle_var_assignment_checked(
            name, Put(V, name, [expr |-> _resolve_expr(V, F, p.r.val, {}, 0).val,
                                deps |-> _free_names(p.r.val)]), F, p.C)

\* lines 1169-1179
_handle_var_assignment_parsed(name, V, F, p) ==
    IF ~p.r.ok THEN Outcome(p.r, V, F, p.C)
    ELSE IF \E dep_name \in _free_names(p.r.val) :
                dep_name \in DOMAIN V /\ ~_resolve_variable(V, dep_name, {name}).ok
         THEN Outcome(Return([ok |-> FALSE, error |-> CircularError]), V, F, p.C)
    ELSE _handle_var_assignment_checked(
            name, Put(V, name, [expr |-> p.r.val, deps |-> _free_names(p.r.val)]), F, p.C)

_handle_var_assignment(name, body_tex, V, F, C) ==
    _handle_var_assignment_parsed(name, V, F, Parse(body_tex, V, F, C))

\* params_str.split(',')
RECURSIVE SplitComma(_, _)
SplitComma(s, current) ==
    IF s = <<>> THEN <<current>>
    ELSE IF s[1] = "," THEN <<current>> \o SplitComma(Tail(s), <<>>)
    ELSE SplitComma(Tail(s), Append(current, s[1]))

\* line 1190
ParamNames(params_str) ==
    [k \in 1..Len(SplitComma(params_str, <<>>)) |-> Strip(SplitComma(params_str, <<>>)[k])]

Range(seq) == {seq[k] : k \in 1..Len(seq)}

\* lines 1194-1200
_handle_function_def_parsed(fname, param_names, V, F, p) ==
    IF ~p.r.ok THEN Outcome(p.r, V, F, p.C \cup Range(param_names))
    ELSE Outcome(Return(_make_result(Poly(Canon(p.r.val)), "function_def", TRUE,
                                     [name |-> fname, params |-> param_names])),
                 V,
                 Put(F, fname, [params |-> param_names, expr |-> p.r.val,
                                deps |-> _free_names(p.r.val) \ Range(param_names)]),
                 p.C \cup Range(param_names))

_handle_function_def(fname, params_str, body_tex, V, F, C) ==
    _handle_function_def_parsed(fname, ParamNames(params_str), V, F, Parse(body_tex, V, F, C))

(***************************************************************************)
(* _eval_inner (lines 602-701) and cas_evaluate (lines 583-599)            *)
(***************************************************************************)
EmptyResult == [ok |-> TRUE, latex |-> <<>>, plain |-> <<>>, type |-> "empty"]

\* a plain evaluation that keeps its value in the variable table under the
\* name ans
PlainStoresAnswer(V, F, C, res) ==
    IF res.ok /\ IsMatrix(res.val)
    THEN Outcome(Return(_make_matrix_result(MatrixValue(res.val), "value", NoExtra)), V, F, C)
    ELSE Made(res, simplify(res.val), "value", FALSE, NoExtra,
              IF res.ok THEN Put(V, <<"a", "n", "s">>, [expr |-> res.val, deps |-> {}]) ELSE V,
              F, C)


\* step 4, lines 680-701
PlainResolved(V, F, C, res) ==
    IF res.ok /\ IsMatrix(res.val)
    THEN Outcome(Return(_make_matrix_result(MatrixValue(res.val), "value", NoExtra)), V, F, C)
    ELSE Made(res, simplify(res.val), "value", FALSE, NoExtra, V, F, C)

PlainParsed(V, F, p) ==
    IF ~p.r.ok THEN Outcome(p.r, V, F, p.C)
    ELSE PlainResolved(V, F, p.C, _resolve_expr(V, F, p.r.val, {}, 0))

Plain(tex, V, F, C) == PlainParsed(V, F, Parse(tex, V, F, C))

\* step 3, lines 669-677: the equation, or the exception that sends the
\* input on to step 4
EquationResolved(V, F, C, res) ==
    Made(res, simplify(res.val), "equation", FALSE, NoExtra, V, F, C)

EquationParsed(V, F, pl, pr) ==
    IF ~pl.r.ok THEN Outcome(pl.r, V, F, pl.C)
    ELSE IF ~pr.r.ok THEN Outcome(pr.r, V, F, pl.C \cup pr.C)
    ELSE EquationResolved(V, F, pl.C \cup pr.C,
                          _resolve_expr(V, F, <<"eq", pl.r.val, pr.r.val>>, {}, 0))

Equation(left, right, V, F, C) ==
    EquationParsed(V, F, Parse(_preprocess_latex(left), V, F, C),
                   Parse(_preprocess_latex(right), V, F, C))

\* lines 666-680: step 3, and step 4 when step 3 raised
EquationOrPlain(tex, V, F, eq) ==
    IF eq.ret.ok THEN eq ELSE Plain(tex, V, F, eq.symbols_cache)

\* the index of the first command pattern, in the order of _CMD_PATTERNS,
\* that matches, or 0
FirstCommand(plain_cmd) ==
    IF \E k \in 1..Len(_CMD_PATTERNS) : CmdMatch(plain_cmd, _CMD_PATTERNS[k]).m
    THEN CHOOSE k \in 1..Len(_CMD_PATTERNS) :
            /\ CmdMatch(plain_cmd, _CMD_PATTERNS[k]).m
            /\ \A j \in 1..(k - 1) : ~CmdMatch(plain_cmd, _CMD_PATTERNS[j]).m
    ELSE 0

\* lines 618-620: the argument text, from the original text when the
\* pattern matches it too
CommandInner(tex, plain_cmd, pat) ==
    IF CmdMatch(Strip(tex), pat).m THEN CmdMatch(Strip(tex), pat).g1
    ELSE CmdMatch(plain_cmd, pat).g1

\* lines 650-663: the assignment of a name that is not reserved
Assignment(vname, body_tex, V, F, C) ==
    IF _is_matrix_expr(_preprocess_latex(body_tex))
    THEN _handle_matrix_assignment(vname, _preprocess_latex(body_tex), V, F, C)
    ELSE _handle_var_assignment(vname, body_tex, V, F, C)

\* a dispatch that tries the equation before the function definition and
\* the assignment
EquationFirst(tex, plain_cmd, i, fd, va, V, F, C) ==
    IF /\ i > 1 /\ Strip(SubSeq(tex, 1, i - 1)) # <<>>
       /\ Strip(From(tex, i + 1)) # <<>>
    THEN EquationOrPlain(tex, V, F,
                         Equation(SubSeq(tex, 1, i - 1), From(tex, i + 1), V, F, C))
    ELSE IF fd.m THEN _handle_function_def(fd.g1, fd.g2, fd.g3, V, F, C)
    ELSE IF va.m /\ va.g1 \notin ReservedNames
         THEN Assignment(va.g1, Strip(From(tex, i + 1)), V, F, C)
    ELSE Plain(tex, V, F, C)

\* lines 643-701, for an input that is no command and no calculus notation;
\* i is tex.index('=') (0 when there is none)
Steps1To4(tex, plain_cmd, i, fd, va, V, F, C) ==
    IF fd.m THEN _handle_function_def(fd.g1, fd.g2, fd.g3, V, F, C)
    ELSE IF va.m /\ va.g1 \notin ReservedNames
         THEN Assignment(va.g1, Strip(From(tex, i + 1)), V, F, C)
    ELSE IF /\ i > 1 /\ Strip(SubSeq(tex, 1, i - 1)) # <<>>
            /\ Strip(From(tex, i + 1)) # <<>>
         THEN EquationOrPlain(tex, V, F,
                              Equation(SubSeq(tex, 1, i - 1), From(tex, i + 1), V, F, C))
    ELSE Plain(tex, V, F, C)

\* lines 623-641, for an input that is no command
Notation(tex, plain_cmd, mi, sp, ls, lb, V, F, C, ord) ==
    IF mi.m THEN _handle_latex_int(mi.g1, mi.g2, mi.g3, V, F, C, ord)
    ELSE IF sp.m THEN _handle_latex_sum_prod(sp.g0, sp.g1, sp.g2, sp.g3, V, F, C, ord)
    ELSE IF ls.m THEN _handle_latex_limit(ls.g1, ls.g2, ls.g3, V, F, C)
    ELSE IF lb.m THEN _handle_latex_limit_bare(lb.g1, V, F, C)
    ELSE IF _is_matrix_expr(tex) THEN _handle_matrix_literal(tex, V, F, C)
    ELSE Steps1To4(tex, plain_cmd, IndexFrom(tex, 1, "="), _ASSIGN_FUNC(plain_cmd),
                   _ASSIGN_VAR(plain_cmd), V, F, C)

\* lines 613-620; k is the index of the first pattern that matches
Commands(tex, plain_cmd, k, V, F, C, ord) ==
    IF k > 0
    THEN _handle_command(_CMD_PATTERNS[k].cmd, CommandInner(tex, plain_cmd, _CMD_PATTERNS[k]),
                         V, F, C, ord)
    ELSE Notation(tex, plain_cmd, _LATEX_INT_DEF(tex), _LATEX_SUM_PROD(tex),
                  _LATEX_LIM_SUB(tex), _LATEX_LIM_BARE(tex), V, F, C, ord)

\* lines 604-611
Preprocessed(tex, plain_cmd, V, F, C, ord) ==
    IF tex = <<>> THEN Outcome(Return(EmptyResult), V, F, C)
    ELSE Commands(tex, plain_cmd, FirstCommand(plain_cmd), V, F, C, ord)

StripCommands(tex, V, F, C, ord) ==
    Preprocessed(tex, Strip(StripBackslashes(tex)), V, F, C, ord)

_eval_inner(raw_latex, V, F, C, ord) ==
    StripCommands(_preprocess_latex(raw_latex), V, F, C, ord)

\* a cas_evaluate without the except clause of lines 595-599: the exception
\* leaves the call as it was raised
Uncaught(o) == IF o.ret.ok THEN [o EXCEPT !.ret = o.ret.val] ELSE o

\* json.dumps of what _eval_inner returned, or of the exception it raised
Caught(o) ==
    IF o.ret.ok THEN [o EXCEPT !.ret = o.ret.val]
    ELSE [o EXCEPT !.ret = [ok |-> FALSE, error |-> o.ret.exc]]

cas_evaluate(raw_latex, V, F, C, ord) == Caught(_eval_inner(raw_latex, V, F, C, ord))

\* the value latex() renders: a matrix entry by entry
Value(e) == IF IsMatrix(e) THEN MatrixValue(e) ELSE Poly(Canon(e))

\* cas_get_state (lines 1205-1222)
cas_get_state(V, F) ==
    [variables |-> [n \in DOMAIN V |-> [latex |-> latex(Value(V[n].expr)), deps |-> V[n].deps]],
     functions |-> [n \in DOMAIN F |-> [latex |-> latex(Poly(Canon(F[n].expr))),
                                        params |-> F[n].params, deps |-> F[n].deps]]]

(***************************************************************************)
(* The session: the three public calls as actions on the module's tables   *)
(***************************************************************************)
EmptyTable == << >>

Init ==
    /\ variables = EmptyTable
    /\ functions = EmptyTable
    /\ symbols_cache = {}
    /\ call = [op |-> "none", input |-> <<>>]
    /\ result = [ok |-> TRUE]

\* the tables and the record after a call that ended in the outcome o
Evaluated(raw_latex, o) ==
    /\ variables' = o.variables
    /\ functions' = o.functions
    /\ symbols_cache' = o.symbols_cache
    /\ call' = [op |-> "evaluate", input |-> raw_latex]
    /\ result' = o.ret

Evaluate(raw_latex) ==
    \E ord \in SetOrders :
        Evaluated(raw_latex, cas_evaluate(raw_latex, variables, functions, symbols_cache, ord))

\* a cas_clear that empties the function table and the cache but keeps the
\* variables
ClearKeepsVariables ==
    /\ functions' = EmptyTable
    /\ symbols_cache' = {}
    /\ call' = [op |-> "clear", input |-> <<>>]
    /\ result' = [ok |-> TRUE]
    /\ UNCHANGED variables

\* cas_clear (lines 1225-1230)
Clear ==
    /\ variables' = EmptyTable
    /\ functions' = EmptyTable
    /\ symbols_cache' = {}
    /\ call' = [op |-> "clear", input |-> <<>>]
    /\ result' = [ok |-> TRUE]

GetState ==
    /\ call' = [op |-> "get_state", input |-> <<>>]
    /\ result' = cas_get_state(variables, functions)
    /\ UNCHANGED <<variables, functions, symbols_cache>>

\* what evaluating raw_latex returns in the current state, for each order
\* in which Python may iterate its sets
Returns(raw_latex) ==
    {cas_evaluate(raw_latex, variables, functions, symbols_cache, ord).ret : ord \in SetOrders}

(***************************************************************************)
(* Sessions of assignments among p, q and r, a function definition, and     *)
(* reads of the names                                                      *)
(***************************************************************************)
CycleInputs ==
    { <<"p", " ", "=", " ", "q", " ", "+", " ", "1">>,            \* p = q + 1
      <<"q", " ", "=", " ", "p", " ", "+", " ", "1">>,            \* q = p + 1
      <<"r", " ", "=", " ", "q">>,                                \* r = q
      <<"p", " ", "=", " ", "r", " ", "+", " ", "1">>,            \* p = r + 1
      <<"q", " ", "=", " ", "2">>,                                \* q = 2
      <<"r", " ", "=", " ", "r", " ", "+", " ", "1">>,            \* r = r + 1
      <<"g", "(", "t", ")", " ", "=", " ", "t", " ", "+", " ", "p">>,\* g(t) = t + p
      <<"p">>,                                                    \* p
      <<"q">>,                                                    \* q
      <<"r">>,                                                    \* r
      <<"p", " ", "+", " ", "r">> }                               \* p + r

NextCycle == (\E raw_latex \in CycleInputs : Evaluate(raw_latex)) \/ Clear \/ GetState

SpecCycle == Init /\ [][NextCycle]_vars

\* the bound names that name reaches through the names its body mentions
RECURSIVE ReachedFrom(_, _, _)
ReachedFrom(V, frontier, seen) ==
    LET next == UNION {free_symbols(V[n].expr) \cap DOMAIN V : n \in frontier}
    IN  IF next \subseteq seen THEN seen ELSE ReachedFrom(V, next \ seen, seen \cup next)

Reaches(V, n, m) == m \in ReachedFrom(V, {n}, {})

\* name is a member of a cycle of two or more bindings
OnCycle(V, name) ==
    /\ name \in DOMAIN V
    /\ \E m \in DOMAIN V : m # name /\ Reaches(V, name, m) /\ Reaches(V, m, name)

CircularRecord == [ok |-> FALSE, error |-> CircularError]

\* C1: in every state whose bindings hold a cycle of two or more names,
\* evaluating any member of the cycle as a plain expression returns ok:false
\* with the circular-dependency error.
C1_CycleMemberIsCircular ==
    \A name \in DOMAIN variables :
        OnCycle(variables, name) => Returns(name) = {CircularRecord}

\* a member of a cycle has just been read, and the read reported the cycle
C1_Witness ==
    /\ call.op = "evaluate"
    /\ OnCycle(variables, call.input)
    /\ result = CircularRecord

\* the last call was an assignment, and the variable table holds the name
\* with the body as parsed
BindingStored ==
    /\ _ASSIGN_VAR(call.input).g1 \in DOMAIN variables
    /\ variables[_ASSIGN_VAR(call.input).g1].expr
          = Parse(_ASSIGN_VAR(call.input).g2, variables, functions, symbols_cache).r.val

\* C18: after every assignment name = body with a parseable body, whether
\* name was bound before or not and whether the binding closes a cycle or
\* not (r = r + 1, q = p + 1 after p = q + 1), the variable table holds the
\* body under the name, and the assignment has not reported a cycle: only
\* reads do.
C18_AssignmentAlwaysStores ==
    call.op = "evaluate" /\ _ASSIGN_VAR(call.input).m =>
        BindingStored /\ result # CircularRecord

\* the record of a plain read of a name that is a free symbol
SymbolRecord(name) ==
    [ok |-> TRUE, latex |-> latex(Poly(PAtom(Sym(name)))),
     plain |-> pretty(Poly(PAtom(Sym(name)))), type |-> "value"]

\* the names the inputs assign: the names a session can have bound
CycleNames == {_ASSIGN_VAR(inp).g1 : inp \in {i \in CycleInputs : _ASSIGN_VAR(i).m}}

ChainInputs ==
    { <<"a", " ", "=", " ", "1">>,                                \* a = 1
      <<"b", " ", "=", " ", "a", " ", "+", " ", "1">>,            \* b = a + 1
      <<"c", " ", "=", " ", "b", " ", "+", " ", "1">>,            \* c = b + 1
      <<"d", " ", "=", " ", "c", " ", "+", " ", "1">>,            \* d = c + 1
      <<"a", " ", "=", " ", "1", "0">>,                           \* a = 10
      <<"a">>,                                                    \* a
      <<"b">>,                                                    \* b
      <<"c">>,                                                    \* c
      <<"d">> }                                                   \* d

NextChain == (\E raw_latex \in ChainInputs : Evaluate(raw_latex)) \/ Clear \/ GetState

SpecChain == Init /\ [][NextChain]_vars

\* the assignments among the inputs: g1 the name, g2 the body as written
ChainAssignments == {_ASSIGN_VAR(inp) : inp \in {i \in ChainInputs : _ASSIGN_VAR(i).m}}

\* every stored body is the body as written in an assignment to its name
StoredAsWritten ==
    \A n \in DOMAIN variables :
        \E w \in ChainAssignments :
            /\ w.g1 = n
            /\ variables[n].expr = Parse(w.g2, variables, functions, symbols_cache).r.val

\* the tree e mentions, through the bindings, only bound names and integers
RECURSIVE Grounded(_, _)
Grounded(V, e) ==
    CASE Tag(e) = "num" -> e[3] = 1
      [] Tag(e) = "sym" -> e[2] \in DOMAIN V /\ Grounded(V, V[e[2]].expr)
      [] Tag(e) \in {"add", "mul"} -> Grounded(V, e[2]) /\ Grounded(V, e[3])
      [] OTHER -> FALSE

\* the integer a grounded tree denotes under the bindings as they are now
RECURSIVE IntValue(_, _)
IntValue(V, e) ==
    CASE Tag(e) = "num" -> e[2]
      [] Tag(e) = "sym" -> IntValue(V, V[e[2]].expr)
      [] Tag(e) = "add" -> IntValue(V, e[2]) + IntValue(V, e[3])
      [] Tag(e) = "mul" -> IntValue(V, e[2]) * IntValue(V, e[3])

Integer(k) == Poly(PConst(<<k, 1>>))

\* the record of a plain read whose value is the integer k
IntegerRecord(k) ==
    [ok |-> TRUE, latex |-> latex(Integer(k)), plain |-> pretty(Integer(k)), type |-> "value"]

\* C2: in every state of a session over the chain, each binding holds its
\* body as written, and reading a name whose dependencies are all bound
\* returns the integer its body denotes under the bindings of that state:
\* a redefinition of a reaches b, c and d without their being re-assigned.
C2_DependentsFollow ==
    /\ StoredAsWritten
    /\ \A n \in DOMAIN variables :
          Grounded(variables, Sym(n)) => Returns(n) = {IntegerRecord(IntValue(variables, Sym(n)))}

\* d has just been read as 13: a is bound to 10, and d still holds c + 1
C2_Witness ==
    /\ call = [op |-> "evaluate", input |-> <<"d">>]
    /\ {<<"a">>, <<"d">>} \subseteq DOMAIN variables
    /\ variables[<<"a">>].expr = Num(10)
    /\ variables[<<"d">>].expr = <<"add", Sym(<<"c">>), Num(1)>>
    /\ result = IntegerRecord(13)

(***************************************************************************)
(* Sessions that assign names to bodies, one of them a call of a           *)
(* user-defined function, and read the names and the bodies                *)
(***************************************************************************)
BodyInputs ==
    { <<"x", " ", "=", " ", "5">>,                                \* x = 5
      <<"x", " ", "=", " ", "7">>,                                \* x = 7
      <<"y", " ", "=", " ", "x", " ", "+", " ", "3">>,            \* y = x + 3
      <<"f", "(", "s", ",", " ", "t", ")", " ", "=", " ", "s", " ", "+", " ", "2", "t">>,\* f(s, t) = s + 2t
      <<"z", " ", "=", " ", "f", "(", "2", ",", " ", "3", ")">>,  \* z = f(2, 3)
      <<"y">>,                                                    \* y
      <<"z">>,                                                    \* z
      <<"x", " ", "+", " ", "3">>,                                \* x + 3
      <<"f", "(", "2", ",", " ", "3", ")">> }                     \* f(2, 3)

NextBody == (\E raw_latex \in BodyInputs : Evaluate(raw_latex)) \/ Clear \/ GetState

SpecBody == Init /\ [][NextBody]_vars

\* the variable assignments among the inputs: g1 the name, g2 the body
BodyAssignments == {_ASSIGN_VAR(inp) : inp \in {i \in BodyInputs : _ASSIGN_VAR(i).m}}

\* the binding of w.g1 is the body of the assignment w, as it parses now
BoundAs(w) ==
    /\ w.g1 \in DOMAIN variables
    /\ Parse(w.g2, variables, functions, symbols_cache).r.ok
    /\ variables[w.g1].expr = Parse(w.g2, variables, functions, symbols_cache).r.val

\* C3: whenever a name holds the body of an accepted assignment, reading
\* the name returns what evaluating the body as a plain expression returns
\* in the same state.
C3_ReadEqualsBody ==
    \A w \in BodyAssignments : BoundAs(w) => Returns(w.g1) = Returns(w.g2)

\* the input f(s, t) = s + 2t
DefinesF == <<"f", "(", "s", ",", " ", "t", ")", " ", "=", " ", "s", " ", "+", " ", "2", "t">>

\* C9: a successful variable assignment returns type "assignment" and the
\* assigned name; the successful definition of f returns type
\* "function_def", the name f and the parameters s, t in the order they
\* were declared; a successful read of a bound name returns type "value".
C9_DefinitionRecords ==
    (call.op = "evaluate" /\ result.ok) =>
        /\ \A w \in BodyAssignments :
              call.input \in {i \in BodyInputs : _ASSIGN_VAR(i) = w}
                  => result.type = "assignment" /\ result.name = w.g1
        /\ call.input = DefinesF
              => /\ result.type = "function_def"
                 /\ result.name = <<"f">>
                 /\ result.params = << <<"s">>, <<"t">> >>
        /\ call.input \in DOMAIN variables => result.type = "value"

\* y has just been read after its assignment: the record is a value
C9_Witness ==
    /\ call = [op |-> "evaluate", input |-> <<"y">>]
    /\ <<"y">> \in DOMAIN variables
    /\ <<"f">> \in DOMAIN functions
    /\ result.ok /\ result.type = "value"

(***************************************************************************)
(* Sessions over inputs of every kind but matrices: blank inputs, a text   *)
(* that does not parse, an assignment, a function definition, commands,    *)
(* an equation, an integral and plain expressions                          *)
(***************************************************************************)
ShapeInputs ==
    { <<>>,                                                       \* ''
      <<" ", " ">>,                                               \* '  '
      <<BSL, "l", "e", "f", "t">>,                                \* \left
      <<"x", " ", "+">>,                                          \* x +
      <<"p", " ", "=", " ", "1", "/", "3">>,                      \* p = 1/3
      <<"p">>,                                                    \* p
      <<"f", "(", "x", ")", " ", "=", " ", "2", "x", " ", "+", " ", "p">>,\* f(x) = 2x + p
      <<"f", "(", "1", ")">>,                                     \* f(1)
      <<"s", "o", "l", "v", "e", "(", "1", ")">>,                 \* solve(1)
      <<"s", "o", "l", "v", "e", "(", "x", "^", "2", " ", "-", " ", "4", ",", " ", "x", ")">>,\* solve(x^2 - 4, x)
      <<"x", " ", "+", " ", "2", " ", "=", " ", "5">>,            \* x + 2 = 5
      <<BSL, "i", "n", "t", "_", "0", "^", "2", " ", "x", " ", "d", "x">>,\* \int_0^2 x dx
      <<"N", "(", "p", ")">>,                                     \* N(p)
      <<"4", "2">>,                                               \* 42
      <<"s", "e", "r", "i", "e", "s", "(", "x", ")">> }           \* series(x)

NextShapes == (\E raw_latex \in ShapeInputs : Evaluate(raw_latex)) \/ Clear \/ GetState

SpecShapes == Init /\ [][NextShapes]_vars

ResultTypes == {"value", "assignment", "function_def", "command", "equation", "empty"}

\* the success shape: latex, plain and a type of the list, and no error
OkShape(r) ==
    /\ r.ok = TRUE
    /\ {"latex", "plain", "type"} \subseteq DOMAIN r
    /\ "error" \notin DOMAIN r
    /\ r.type \in ResultTypes

\* the failure shape: an error message and nothing else
ErrorShape(r) == r.ok = FALSE /\ DOMAIN r = {"ok", "error"}

\* C4: whatever cas_evaluate returned, in any state and for any of the
\* inputs, is a record of the success shape or a record of the failure
\* shape; an exception raised inside never leaves the call.
C4_RecordShapes ==
    call.op = "evaluate" =>
        /\ "ok" \in DOMAIN result
        /\ OkShape(result) \/ ErrorShape(result)

\* the parser raised on "x +" and the call returned the failure record
C4_Witness ==
    /\ call = [op |-> "evaluate", input |-> <<"x", " ", "+">>]
    /\ result = [ok |-> FALSE, error |-> SyntaxError]

\* C7: in every state and for every input, cas_evaluate returns the empty
\* record exactly when the input is empty once its outer whitespace is
\* trimmed, and a call that returns the empty record leaves the variable
\* table and the function table as they were.
C7_EmptyExactlyWhenBlank ==
    \A inp \in ShapeInputs : \A ord \in SetOrders :
        LET o == cas_evaluate(inp, variables, functions, symbols_cache, ord)
        IN  /\ o.ret = EmptyResult <=> Strip(inp) = <<>>
            /\ o.ret = EmptyResult => o.variables = variables /\ o.functions = functions

\* the command an input is dispatched to by lines 611-616, or "none"
CommandOf(raw_latex) ==
    LET plain_cmd == Strip(StripBackslashes(_preprocess_latex(raw_latex)))
    IN  IF FirstCommand(plain_cmd) > 0 THEN _CMD_PATTERNS[FirstCommand(plain_cmd)].cmd
        ELSE "none"

\* the LaTeX field l renders an integer
RendersInteger(l) == Len(l) = 2 /\ l[1] = "latex" /\ ValueIsInteger(l[2])

NumericFieldNames == {"numeric_latex", "numeric_plain"}

\* C8: a success record carries numeric_latex exactly when it carries
\* numeric_plain; it carries neither when its value is an integer, and
\* neither when it was produced by solve, by series or by a function
\* definition.
C8_NumericFields ==
    (call.op = "evaluate" /\ result.ok) =>
        /\ "numeric_latex" \in DOMAIN result <=> "numeric_plain" \in DOMAIN result
        /\ RendersInteger(result.latex) => NumericFieldNames \cap DOMAIN result = {}
        /\ (CommandOf(call.input) \in {"solve", "series"} \/ result.type = "function_def")
              => NumericFieldNames \cap DOMAIN result = {}

\* 42 has just been evaluated: the record is that of the integer, with no
\* numeric field
C8_Witness ==
    /\ call = [op |-> "evaluate", input |-> <<"4", "2">>]
    /\ result = IntegerRecord(42)

(***************************************************************************)
(* Sessions that define a function of one parameter over a variable, a     *)
(* function of two parameters, and call them                               *)
(***************************************************************************)
ApplyInputs ==
    { <<"a", " ", "=", " ", "3">>,                                \* a = 3
      <<"a", " ", "=", " ", "4">>,                                \* a = 4
      <<"h", "(", "x", ")", " ", "=", " ", "5", "a", "x">>,       \* h(x) = 5ax
      <<"h", "(", "6", ")">>,                                     \* h(6)
      <<"g", "(", "x", ",", " ", "y", ")", " ", "=", " ", "x", " ", "+", " ", "2", "y">>,\* g(x, y) = x + 2y
      <<"g", "(", "1", ",", " ", "y", ")">>,                      \* g(1, y)
      <<"g", "(", "y", ",", " ", "1", ")">> }                     \* g(y, 1)

NextApply == (\E raw_latex \in ApplyInputs : Evaluate(raw_latex)) \/ Clear \/ GetState

SpecApply == Init /\ [][NextApply]_vars

\* the tree e with every name of the map replaced by its image, all at once
RECURSIVE SubsAll(_, _)
SubsAll(e, map) ==
    CASE Tag(e) = "sym" -> IF e[2] \in DOMAIN map THEN map[e[2]] ELSE e
      [] Tag(e) \in {"num", "const"} -> e
      [] Tag(e) \in {"add", "mul", "div", "pow", "eq"} ->
            <<Tag(e), SubsAll(e[2], map), SubsAll(e[3], map)>>
      [] Tag(e) = "neg" -> <<"neg", SubsAll(e[2], map)>>
      [] Tag(e) = "app" -> <<"app", e[2], [k \in 1..Len(e[3]) |-> SubsAll(e[3][k], map)]>>

\* the tree e is a call of a defined function with as many arguments as
\* the function has parameters
IsCall(e) ==
    /\ Tag(e) = "app"
    /\ e[2] \in DOMAIN functions
    /\ Len(e[3]) = Len(functions[e[2]].params)

\* the stored body of the called function with each parameter replaced by
\* its argument, resolved in the current session
BodyAtArguments(e) ==
    _resolve_expr(variables, functions,
                  SubsAll(functions[e[2]].expr, ZipDict(functions[e[2]].params, e[3])), {}, 0)

\* C5: evaluating a call f(args) of a defined function, with as many
\* arguments as parameters, returns the stored body with each parameter
\* replaced by its argument, resolved in the session as it is at the call.
C5_CallIsBodyAtArguments ==
    \A inp \in ApplyInputs :
        LET e == Parse(inp, variables, functions, symbols_cache).r
        IN  (e.ok /\ IsCall(e.val) /\ BodyAtArguments(e.val).ok)
                => Returns(inp) = {_make_result(simplify(BodyAtArguments(e.val).val),
                                                "value", FALSE, NoExtra)}

(***************************************************************************)
(* Sessions that bind x and a and run each handler that has an operation   *)
(* variable on an expression in a and x, with x the operation variable     *)
(***************************************************************************)
\* each input with the same input written with 3 in the place of a
OperationInputs ==
    { <<<<"d", "i", "f", "f", "(", "a", " ", "x", "^", "2", ",", " ", "x", ")">>,
        <<"d", "i", "f", "f", "(", "3", " ", "x", "^", "2", ",", " ", "x", ")">>>>,
      <<<<"i", "n", "t", "e", "g", "r", "a", "t", "e", "(", "a", " ", "x", ",", " ", "x", ")">>,
        <<"i", "n", "t", "e", "g", "r", "a", "t", "e", "(", "3", " ", "x", ",", " ", "x", ")">>>>,
      <<<<"l", "i", "m", "i", "t", "(", "a", " ", "x", ",", " ", "x", ",", " ", "2", ")">>,
        <<"l", "i", "m", "i", "t", "(", "3", " ", "x", ",", " ", "x", ",", " ", "2", ")">>>>,
      <<<<"s", "e", "r", "i", "e", "s", "(", "a", " ", "x", ",", " ", "x", ")">>,
        <<"s", "e", "r", "i", "e", "s", "(", "3", " ", "x", ",", " ", "x", ")">>>>,
      <<<<"s", "o", "l", "v", "e", "(", "a", " ", "x", " ", "-", " ", "6", ",", " ", "x", ")">>,
        <<"s", "o", "l", "v", "e", "(", "3", " ", "x", " ", "-", " ", "6", ",", " ", "x", ")">>>>,
      <<<<BSL, "i", "n", "t", "_", "0", "^", "2", " ", "a", " ", "x", " ", "d", "x">>,
        <<BSL, "i", "n", "t", "_", "0", "^", "2", " ", "3", " ", "x", " ", "d", "x">>>>,
      <<<<BSL, "s", "u", "m", "_", "{", "x", "=", "1", "}", "^", "{", "3", "}", " ", "a", " ", "x">>,
        <<BSL, "s", "u", "m", "_", "{", "x", "=", "1", "}", "^", "{", "3", "}", " ", "3", " ", "x">>>>,
      <<<<BSL, "p", "r", "o", "d", "_", "{", "x", "=", "1", "}", "^", "{", "3", "}", " ", "a", " ", "x">>,
        <<BSL, "p", "r", "o", "d", "_", "{", "x", "=", "1", "}", "^", "{", "3", "}", " ", "3", " ", "x">>>>,
      <<<<BSL, "l", "i", "m", "_", "{", "x", " ", BSL, "t", "o", " ", "2", "}", " ", "a", " ", "x">>,
        <<BSL, "l", "i", "m", "_", "{", "x", " ", BSL, "t", "o", " ", "2", "}", " ", "3", " ", "x">>>> }

BindingInputs ==
    { <<"x", " ", "=", " ", "5">>,                                \* x = 5
      <<"x", " ", "=", " ", "7">>,                                \* x = 7
      <<"a", " ", "=", " ", "3">>,                                \* a = 3
      <<"x">>,                                                    \* x
      <<"a">>,                                                    \* a
      <<"a", " ", "x">> }                                         \* a x

OpVarInputs == BindingInputs \cup {pair[1] : pair \in OperationInputs}

NextOpVar == (\E raw_latex \in OpVarInputs : Evaluate(raw_latex)) \/ Clear \/ GetState

SpecOpVar == Init /\ [][NextOpVar]_vars

\* what evaluating raw_latex returns in the session with no bindings
ReturnsUnbound(raw_latex) ==
    {cas_evaluate(raw_latex, << >>, << >>, {}, ord).ret : ord \in SetOrders}

\* C10: in every state, bound or not the operation variable x, each handler
\* returns what it returns on its expression in a session with no binding
\* at all, with the value of a written in the place of a when a is bound:
\* the x of the expression is kept, and a is replaced.
C10_OperationVariableKept ==
    \A pair \in OperationInputs :
        Returns(pair[1]) = IF <<"a">> \in DOMAIN variables THEN ReturnsUnbound(pair[2])
                           ELSE ReturnsUnbound(pair[1])

(***************************************************************************)
(* Sessions over inputs of every form of _eval_inner, some of which match  *)
(* more than one form                                                      *)
(***************************************************************************)
\* the inputs, each with whether its evaluation succeeds
DispatchCases ==
    { [input |-> <<"N", "(", "x", ")", " ", "=", " ", "2", "(", "x", " ", "+", " ", "1", ")">>,
       ok |-> FALSE],   \* N(x) = 2(x + 1)
      [input |-> <<"e", "x", "p", "a", "n", "d", "(", "2", "(", "x", " ", "+", " ", "1", ")", ")">>,
       ok |-> TRUE],   \* expand(2(x + 1))
      [input |-> <<BSL, "i", "n", "t", "_", "0", "^", "2", " ", "3", "x", " ", "d", "x">>,
       ok |-> TRUE],   \* \int_0^2 3x dx
      [input |-> <<BSL, "s", "u", "m", "_", "{", "x", "=", "1", "}", "^", "{", "3", "}", " ", "x">>,
       ok |-> TRUE],   \* \sum_{x=1}^{3} x
      [input |-> <<BSL, "l", "i", "m", "_", "{", "x", " ", BSL, "t", "o", " ", "2", "}", " ", "3", "x">>,
       ok |-> TRUE],   \* \lim_{x \to 2} 3x
      [input |-> <<BSL, "l", "i", "m", " ", "2", "x">>,
       ok |-> TRUE],   \* \lim 2x
      [input |-> <<BSL, "l", "i", "m", " ", "=", " ", "3">>,
       ok |-> FALSE],   \* \lim = 3
      [input |-> <<BSL, "b", "e", "g", "i", "n", "{", "p", "m", "a", "t", "r", "i", "x", "}", "1", " ", "&", " ", "x", BSL, "e", "n", "d", "{", "p", "m", "a", "t", "r", "i", "x", "}">>,
       ok |-> TRUE],   \* \begin{pmatrix}1 & x\end{pmatrix}
      [input |-> <<"f", "(", "x", ")", " ", "=", " ", "x", " ", "+", " ", "1">>,
       ok |-> TRUE],   \* f(x) = x + 1
      [input |-> <<"y", " ", "=", " ", "x", " ", "+", " ", "1">>,
       ok |-> TRUE],   \* y = x + 1
      [input |-> <<"M", " ", "=", " ", BSL, "b", "e", "g", "i", "n", "{", "p", "m", "a", "t", "r", "i", "x", "}", "1", " ", "&", " ", "2", BSL, "e", "n", "d", "{", "p", "m", "a", "t", "r", "i", "x", "}">>,
       ok |-> TRUE],   \* M = \begin{pmatrix}1 & 2\end{pmatrix}
      [input |-> <<"e", " ", "=", " ", "5">>,
       ok |-> TRUE],   \* e = 5
      [input |-> <<"x", " ", "+", " ", "1", " ", "=", " ", "5">>,
       ok |-> TRUE],   \* x + 1 = 5
      [input |-> <<"y">>,
       ok |-> TRUE] }   \* y

DispatchInputs == {c.input : c \in DispatchCases}

NextDispatch == (\E raw_latex \in DispatchInputs : Evaluate(raw_latex)) \/ Clear \/ GetState

SpecDispatch == Init /\ [][NextDispatch]_vars

\* the forms, in the order the spec gives them
FormOrder ==
    <<"command", "int", "sum_prod", "lim_sub", "lim_bare", "matrix", "function_def",
      "assignment", "equation", "plain">>

\* the input, preprocessed, has the form: the regular expression of the form
\* matches it, whatever else does
Matches(form, tex) ==
    CASE form = "command"      -> FirstCommand(Strip(StripBackslashes(tex))) > 0
      [] form = "int"          -> _LATEX_INT_DEF(tex).m
      [] form = "sum_prod"     -> _LATEX_SUM_PROD(tex).m
      [] form = "lim_sub"      -> _LATEX_LIM_SUB(tex).m
      [] form = "lim_bare"     -> _LATEX_LIM_BARE(tex).m
      [] form = "matrix"       -> _is_matrix_expr(tex)
      [] form = "function_def" -> _ASSIGN_FUNC(Strip(StripBackslashes(tex))).m
      [] form = "assignment"   ->
            /\ _ASSIGN_VAR(Strip(StripBackslashes(tex))).m
            /\ _ASSIGN_VAR(Strip(StripBackslashes(tex))).g1 \notin ReservedNames
      [] form = "equation"     ->
            /\ IndexFrom(tex, 1, "=") > 1
            /\ Strip(SubSeq(tex, 1, IndexFrom(tex, 1, "=") - 1)) # <<>>
            /\ Strip(From(tex, IndexFrom(tex, 1, "=") + 1)) # <<>>
      [] form = "plain"        -> TRUE

\* the first form of the order that the input has
FirstForm(raw_latex) ==
    FormOrder[CHOOSE k \in 1..Len(FormOrder) :
                 /\ Matches(FormOrder[k], _preprocess_latex(raw_latex))
                 /\ \A j \in 1..(k - 1) : ~Matches(FormOrder[j], _preprocess_latex(raw_latex))]

\* what the handler of a form leaves behind: the record r it returned for
\* the input, and the tables V and F after it.  Each big-operator input has
\* the value 6 in every session (x is never bound).
HandledAs(form, raw_latex, r, V, F) ==
    CASE form = "command"      -> r.ok => r.type = "command"
      [] form \in {"int", "sum_prod", "lim_sub"} ->
            r.ok => r.type = "value" /\ r.latex = latex(Poly(PConst(<<6, 1>>)))
      [] form = "lim_bare"     -> r.ok => r.type = "value" /\ r.latex[1] = "lim"
      [] form = "matrix"       -> r.ok => r.type = "value" /\ "is_matrix" \in DOMAIN r
      [] form = "function_def" ->
            r.ok => /\ r.type = "function_def"
                    /\ _ASSIGN_FUNC(Strip(raw_latex)).g1 \in DOMAIN F
      [] form = "assignment"   ->
            r.ok => /\ r.type = "assignment"
                    /\ _ASSIGN_VAR(Strip(raw_latex)).g1 \in DOMAIN V
      [] form = "equation"     -> r.ok => r.type \in {"equation", "value"}
      [] form = "plain"        -> r.ok => r.type = "value"

Case(raw_latex) == CHOOSE c \in DispatchCases : c.input = raw_latex

HasFunctionDefShape(raw_latex) == _ASSIGN_FUNC(Strip(raw_latex)).m

HasAssignmentShape(raw_latex) ==
    _ASSIGN_VAR(Strip(raw_latex)).m /\ _ASSIGN_VAR(Strip(raw_latex)).g1 \notin ReservedNames

\* the last call defined the function its input names
DefinedFunction ==
    /\ result.ok /\ result.type = "function_def"
    /\ _ASSIGN_FUNC(Strip(call.input)).g1 \in DOMAIN functions

\* the last call assigned the variable its input names
AssignedVariable ==
    /\ result.ok /\ result.type = "assignment"
    /\ _ASSIGN_VAR(Strip(call.input)).g1 \in DOMAIN variables

\* the last call succeeded or failed as its input does, and left what the
\* handler of the first form the input has leaves
RanFirstForm ==
    /\ result.ok = Case(call.input).ok
    /\ HandledAs(FirstForm(call.input), call.input, result, variables, functions)

ReservedInputs ==
    { <<"e", " ", "=", " ", "5">>,                                \* e = 5
      <<"E", " ", "=", " ", "x">>,                                \* E = x
      <<"i", " ", "=", " ", "2">>,                                \* i = 2
      <<BSL, "p", "i", " ", "=", " ", "3">>,                      \* \pi = 3
      <<"I", " ", "=", " ", BSL, "b", "e", "g", "i", "n", "{", "p", "m", "a", "t", "r", "i", "x", "}", "1", " ", "&", " ", "2", BSL, "e", "n", "d", "{", "p", "m", "a", "t", "r", "i", "x", "}">>,\* I = \begin{pmatrix}1 & 2\end{pmatrix}
      <<"e", " ", "=", " ", BSL, "b", "e", "g", "i", "n", "{", "p", "m", "a", "t", "r", "i", "x", "}", "1", BSL, "e", "n", "d", "{", "p", "m", "a", "t", "r", "i", "x", "}">>,\* e = \begin{pmatrix}1\end{pmatrix}
      <<"x", " ", "=", " ", "5">>,                                \* x = 5
      <<"M", " ", "=", " ", BSL, "b", "e", "g", "i", "n", "{", "p", "m", "a", "t", "r", "i", "x", "}", "1", " ", "&", " ", "2", BSL, "e", "n", "d", "{", "p", "m", "a", "t", "r", "i", "x", "}">> }\* M = \begin{pmatrix}1 & 2\end{pmatrix}

NextReserved == (\E raw_latex \in ReservedInputs : Evaluate(raw_latex)) \/ Clear \/ GetState

SpecReserved == Init /\ [][NextReserved]_vars

\* the names of the mathematical constants
ConstantLetters == {<<"e">>, <<"i">>, <<"p", "i">>, <<"E">>, <<"I">>}

\* the name an input name = body assigns to
AssignedName(raw_latex) == _ASSIGN_VAR(Strip(StripBackslashes(_preprocess_latex(raw_latex)))).g1

\* the last call was handled as an equation or as a plain expression, or failed
EquationOrPlainRecord ==
    result.ok => result.type \in {"equation", "value"} /\ "name" \notin DOMAIN result

\* C12: none of e, i, pi, E, I is ever a key of the variable table, whether
\* the right-hand side of the assignment is a scalar or a matrix; an input
\* that assigns to one of them is handled as an equation or as a plain
\* expression.
C12_ConstantsNeverAssigned ==
    /\ ConstantLetters \cap DOMAIN variables = {}
    /\ call.op = "evaluate" /\ AssignedName(call.input) \in ConstantLetters
          => EquationOrPlainRecord

\* I = \begin{pmatrix}1 & 2\end{pmatrix} was evaluated in a session that has
\* assigned the same matrix to M and 5 to x, and failed
C12_Witness ==
    /\ call = [op |-> "evaluate", input |-> <<"I", " ", "=", " ", BSL, "b", "e", "g", "i", "n", "{", "p", "m", "a", "t", "r", "i", "x", "}", "1", " ", "&", " ", "2", BSL, "e", "n", "d", "{", "p", "m", "a", "t", "r", "i", "x", "}">>]
    /\ ~result.ok
    /\ DOMAIN variables = {<<"M">>, <<"x">>}

(***************************************************************************)
(* Matrix commands on arguments that do not meet their preconditions       *)
(* (lines 847-864 and 920-1039).                                           *)
(***************************************************************************)
MatrixBindingInputs ==
    { <<"M", " ", "=", " ", BSL, "b", "e", "g", "i", "n", "{", "p", "m", "a", "t", "r", "i", "x", "}", "1", " ", "&", " ", "2", BSL, "e", "n", "d", "{", "p", "m", "a", "t", "r", "i", "x", "}">>,\* M = \begin{pmatrix}1 & 2\end{pmatrix}
      <<"M", " ", "=", " ", BSL, "b", "e", "g", "i", "n", "{", "p", "m", "a", "t", "r", "i", "x", "}", "1", " ", "&", " ", "2", " ", BSL, BSL, " ", "2", " ", "&", " ", "4", BSL, "e", "n", "d", "{", "p", "m", "a", "t", "r", "i", "x", "}">>,\* M = \begin{pmatrix}1 & 2 \\ 2 & 4\end{pmatrix}
      <<"M", " ", "=", " ", BSL, "b", "e", "g", "i", "n", "{", "p", "m", "a", "t", "r", "i", "x", "}", "1", " ", "&", " ", "2", " ", BSL, BSL, " ", "3", " ", "&", " ", "4", BSL, "e", "n", "d", "{", "p", "m", "a", "t", "r", "i", "x", "}">>,\* M = \begin{pmatrix}1 & 2 \\ 3 & 4\end{pmatrix}
      <<"M", " ", "=", " ", "5">> }                               \* M = 5

\* the commands, with the name of each and its argument
MatrixCommandCases ==
    { [cmd |-> "det", arg |-> <<"M">>,
       input |-> <<"d", "e", "t", "(", "M", ")">>],
      [cmd |-> "inv", arg |-> <<"M">>,
       input |-> <<"i", "n", "v", "(", "M", ")">>],
      [cmd |-> "trace", arg |-> <<"M">>,
       input |-> <<"t", "r", "a", "c", "e", "(", "M", ")">>],
      [cmd |-> "eigenvals", arg |-> <<"M">>,
       input |-> <<"e", "i", "g", "e", "n", "v", "a", "l", "s", "(", "M", ")">>],
      [cmd |-> "eigenvects", arg |-> <<"M">>,
       input |-> <<"e", "i", "g", "e", "n", "v", "e", "c", "t", "s", "(", "M", ")">>],
      [cmd |-> "charpoly", arg |-> <<"M">>,
       input |-> <<"c", "h", "a", "r", "p", "o", "l", "y", "(", "M", ")">>],
      [cmd |-> "transpose", arg |-> <<"M">>,
       input |-> <<"t", "r", "a", "n", "s", "p", "o", "s", "e", "(", "M", ")">>],
      [cmd |-> "det", arg |-> <<BSL, "b", "e", "g", "i", "n", "{", "p", "m", "a", "t", "r", "i", "x", "}", "1", " ", "&", " ", "x", BSL, "e", "n", "d", "{", "p", "m", "a", "t", "r", "i", "x", "}">>,
       input |-> <<"d", "e", "t", "(", BSL, "b", "e", "g", "i", "n", "{", "p", "m", "a", "t", "r", "i", "x", "}", "1", " ", "&", " ", "x", BSL, "e", "n", "d", "{", "p", "m", "a", "t", "r", "i", "x", "}", ")">>],
      [cmd |-> "inv", arg |-> <<"x", " ", "+", " ", "1">>,
       input |-> <<"i", "n", "v", "(", "x", " ", "+", " ", "1", ")">>],
      [cmd |-> "trace", arg |-> <<"5">>,
       input |-> <<"t", "r", "a", "c", "e", "(", "5", ")">>] }

MatrixCommandInputs == MatrixBindingInputs \cup {c.input : c \in MatrixCommandCases}

NextMatrixCommand ==
    (\E raw_latex \in MatrixCommandInputs : Evaluate(raw_latex)) \/ Clear \/ GetState

SpecMatrixCommand == Init /\ [][NextMatrixCommand]_vars

\* the commands that require a square matrix
SquareCommands == {"det", "inv", "trace", "eigenvals", "eigenvects", "charpoly"}

\* what the argument of a command denotes in a session
Argument(c, V, F, C, ord) == _resolve_matrix_arg(c.arg, V, F, C, ord).r

\* the argument is no matrix, or is a matrix the command does not accept
PreconditionFails(c, V, F, C, ord) ==
    \/ ~Argument(c, V, F, C, ord).ok
    \/ ~IsMatrix(Argument(c, V, F, C, ord).val)
    \/ c.cmd \in SquareCommands /\ ~IsSquare(Argument(c, V, F, C, ord).val)
    \/ /\ c.cmd = "inv" /\ IsSquare(Argument(c, V, F, C, ord).val)
       /\ Det(MatrixValue(Argument(c, V, F, C, ord).val)[2]) = PZero

\* the command c, run in the current state, fails
Refused(c, ord) ==
    ~cas_evaluate(c.input, variables, functions, symbols_cache, ord).ret.ok

\* the command c, run in the current state, leaves the two tables as they are
KeepsTables(c, ord) ==
    /\ cas_evaluate(c.input, variables, functions, symbols_cache, ord).variables = variables
    /\ cas_evaluate(c.input, variables, functions, symbols_cache, ord).functions = functions

\* the command c, run in the current state, leaves the symbol cache as it is
KeepsCache(c, ord) ==
    cas_evaluate(c.input, variables, functions, symbols_cache, ord).symbols_cache = symbols_cache

\* C13 as claimed: in every state, a matrix command whose precondition fails
\* (an argument that is no matrix, a matrix that is not square for det, inv,
\* trace, eigenvals, eigenvects and charpoly, a singular matrix for inv)
\* returns ok:false and leaves the variable table, the function table and
\* the symbol cache unchanged.
C13_FailedCommandKeepsSession ==
    \A c \in MatrixCommandCases, ord \in SetOrders :
        PreconditionFails(c, variables, functions, symbols_cache, ord) =>
            Refused(c, ord) /\ KeepsTables(c, ord) /\ KeepsCache(c, ord)

\* C13, amended: in every state, a matrix command whose precondition fails
\* returns ok:false and leaves the variable table and the function table
\* unchanged (the symbol cache may gain the names of the argument).
C13_FailedCommandKeepsTables ==
    \A c \in MatrixCommandCases, ord \in SetOrders :
        PreconditionFails(c, variables, functions, symbols_cache, ord) =>
            Refused(c, ord) /\ KeepsTables(c, ord)

\* inv(M) was refused as singular, with M bound to the singular matrix of
\* rows 1 2 and 2 4
C13_Witness ==
    /\ call = [op |-> "evaluate", input |-> <<"i", "n", "v", "(", "M", ")">>]
    /\ result = Singular
    /\ <<"M">> \in DOMAIN variables
    /\ PreconditionFails([cmd |-> "inv", arg |-> <<"M">>], variables, functions, symbols_cache,
                         "ascending")

(***************************************************************************)
(* Records of matrix values (lines 903-917), by each path that returns a   *)
(* matrix.                                                                 *)
(***************************************************************************)
MatrixRecordInputs ==
    { <<"M", " ", "=", " ", BSL, "b", "e", "g", "i", "n", "{", "p", "m", "a", "t", "r", "i", "x", "}", "1", " ", "&", " ", "2", " ", BSL, BSL, " ", "3", " ", "&", " ", "4", BSL, "e", "n", "d", "{", "p", "m", "a", "t", "r", "i", "x", "}">>,\* M = \begin{pmatrix}1 & 2 \\ 3 & 4\end{pmatrix}
      <<"M", " ", "=", " ", BSL, "b", "e", "g", "i", "n", "{", "p", "m", "a", "t", "r", "i", "x", "}", "1", " ", "&", " ", "x", BSL, "e", "n", "d", "{", "p", "m", "a", "t", "r", "i", "x", "}">>,\* M = \begin{pmatrix}1 & x\end{pmatrix}
      <<BSL, "b", "e", "g", "i", "n", "{", "p", "m", "a", "t", "r", "i", "x", "}", "1", " ", "&", " ", "2", BSL, "e", "n", "d", "{", "p", "m", "a", "t", "r", "i", "x", "}">>,\* \begin{pmatrix}1 & 2\end{pmatrix}
      <<"M">>,                                                    \* M
      <<"v">>,                                                    \* v
      <<"v", " ", "=", " ", "M">>,                                \* v = M
      <<"t", "r", "a", "n", "s", "p", "o", "s", "e", "(", "M", ")">>,\* transpose(M)
      <<"i", "n", "v", "(", "M", ")">>,                           \* inv(M)
      <<"r", "r", "e", "f", "(", "M", ")">>,                      \* rref(M)
      <<"s", "i", "m", "p", "l", "i", "f", "y", "(", "M", ")">>,  \* simplify(M)
      <<"e", "x", "p", "a", "n", "d", "(", "M", ")">>,            \* expand(M)
      <<"s", "u", "b", "s", "(", "M", ",", " ", "x", ",", " ", "2", ")">> }\* subs(M, x, 2)

NextMatrixRecord ==
    (\E raw_latex \in MatrixRecordInputs : Evaluate(raw_latex)) \/ Clear \/ GetState

SpecMatrixRecord == Init /\ [][NextMatrixRecord]_vars

\* the value a record renders
RenderedValue(r) == r.latex[2]

\* the record r is ok:true and its value is a matrix
IsMatrixRecord(r) ==
    /\ r.ok /\ "latex" \in DOMAIN r
    /\ Tag(RenderedValue(r)) \in {"matrix", "rref"}

\* the record r carries is_matrix = true and the dimensions of its value
CarriesShape(r) ==
    /\ {"is_matrix", "rows", "cols"} \subseteq DOMAIN r
    /\ r.is_matrix = TRUE
    /\ r.rows = Rows(RenderedValue(r))
    /\ r.cols = Cols(RenderedValue(r))

\* C14: every ok:true record whose value is a matrix carries is_matrix = true
\* and rows and cols equal to the dimensions of the matrix, whichever path
\* produced it (a literal, a matrix assignment, a read of a matrix variable,
\* v = M, transpose, inv, rref, simplify, expand or subs of a matrix
\* variable).
C14_MatrixRecordsCarryShape ==
    call.op = "evaluate" /\ IsMatrixRecord(result) => CarriesShape(result)

(***************************************************************************)
(* The variable of \int_{a}^{b} body (lines 1070-1091).                    *)
(***************************************************************************)
\* each integral in notation, with the integrate command that names the
\* variable the notation denotes: the d<var> of the body, else x when it is
\* free in the body, else the first free symbol, else a variable of no
\* consequence
IntegralCases ==
    { [notation |-> <<BSL, "i", "n", "t", "_", "0", "^", "2", " ", "3", "x", " ", "d", "x">>,
       command |-> <<"i", "n", "t", "e", "g", "r", "a", "t", "e", "(", "3", "x", ",", " ", "x", ",", " ", "0", ",", " ", "2", ")">>],
      [notation |-> <<BSL, "i", "n", "t", "_", "0", "^", "2", " ", "3", "x", " ", "d", "t">>,
       command |-> <<"i", "n", "t", "e", "g", "r", "a", "t", "e", "(", "3", "x", ",", " ", "t", ",", " ", "0", ",", " ", "2", ")">>],
      [notation |-> <<BSL, "i", "n", "t", "_", "0", "^", "2", " ", "t", " ", "x">>,
       command |-> <<"i", "n", "t", "e", "g", "r", "a", "t", "e", "(", "t", " ", "x", ",", " ", "x", ",", " ", "0", ",", " ", "2", ")">>],
      [notation |-> <<BSL, "i", "n", "t", "_", "0", "^", "2", " ", "3", "t">>,
       command |-> <<"i", "n", "t", "e", "g", "r", "a", "t", "e", "(", "3", "t", ",", " ", "t", ",", " ", "0", ",", " ", "2", ")">>],
      [notation |-> <<BSL, "i", "n", "t", "_", "0", "^", "2", " ", "3">>,
       command |-> <<"i", "n", "t", "e", "g", "r", "a", "t", "e", "(", "3", ",", " ", "x", ",", " ", "0", ",", " ", "2", ")">>] }

IntegralBindingInputs ==
    { <<"x", " ", "=", " ", "5">>,                                \* x = 5
      <<"x", " ", "=", " ", "7">>,                                \* x = 7
      <<"t", " ", "=", " ", "1">>,                                \* t = 1
      <<"x">>,                                                    \* x
      <<"t">> }                                                   \* t

IntegralInputs == IntegralBindingInputs \cup {c.notation : c \in IntegralCases}

NextIntegral == (\E raw_latex \in IntegralInputs : Evaluate(raw_latex)) \/ Clear \/ GetState

SpecIntegral == Init /\ [][NextIntegral]_vars

\* what a record answers: its rendering, or its error
Answer(r) == IF r.ok THEN r.latex ELSE r.error

\* C15: in every session state, with x or the d<var> variable bound or not,
\* \int_{a}^{b} body answers the integral from a to b over the variable its
\* notation denotes: the <var> of a trailing d<var>, else x if x is free in
\* the body, else the first free symbol of the body, else a dummy.
C15_IntegrationVariable ==
    \A c \in IntegralCases :
        {Answer(r) : r \in Returns(c.notation)} = {Answer(r) : r \in Returns(c.command)}

(***************************************************************************)
(* The loop variable of \sum and \prod (lines 1094-1131).                  *)
(***************************************************************************)
\* each sum or product, with a plain expression of the value the notation
\* denotes (none when no loop variable can be told)
SumProdCases ==
    { [notation |-> <<BSL, "s", "u", "m", "_", "{", "x", "=", "1", "}", "^", "{", "3", "}", " ", "x">>,
       value |-> <<"6">>],
      [notation |-> <<BSL, "p", "r", "o", "d", "_", "{", "x", "=", "1", "}", "^", "{", "3", "}", " ", "x">>,
       value |-> <<"6">>],
      [notation |-> <<BSL, "s", "u", "m", "_", "{", "n", "=", "0", "}", "^", "{", "2", "}", " ", "x">>,
       value |-> <<"3", "x">>],
      [notation |-> <<BSL, "s", "u", "m", "_", "{", "n", "=", "1", "}", "^", "{", "2", "}", " ", "5">>,
       value |-> <<"1", "0">>],
      [notation |-> <<BSL, "s", "u", "m", "_", "{", "0", "}", "^", "{", "2", "}", " ", "5", "x">>,
       value |-> <<"1", "5">>],
      [notation |-> <<BSL, "p", "r", "o", "d", "_", "{", "0", "}", "^", "{", "2", "}", " ", "5", "x">>,
       value |-> <<"0">>],
      [notation |-> <<BSL, "s", "u", "m", "_", "{", "0", "}", "^", "{", "2", "}", " ", "5">>,
       value |-> <<>>],
      [notation |-> <<BSL, "p", "r", "o", "d", "_", "{", "0", "}", "^", "{", "2", "}", " ", "5">>,
       value |-> <<>>] }

SumProdBindingInputs ==
    { <<"x", " ", "=", " ", "5">>,                                \* x = 5
      <<"x", " ", "=", " ", "7">>,                                \* x = 7
      <<"n", " ", "=", " ", "1">>,                                \* n = 1
      <<"x">>,                                                    \* x
      <<"n">> }                                                   \* n

SumProdInputs == SumProdBindingInputs \cup {c.notation : c \in SumProdCases}

NextSumProd == (\E raw_latex \in SumProdInputs : Evaluate(raw_latex)) \/ Clear \/ GetState

SpecSumProd == Init /\ [][NextSumProd]_vars

\* C16: in every state, a \sum or \prod whose lower bound is var = value
\* runs var from value (\sum_{n=0}^{2} x is 3x, for the current x); one
\* whose lower bound is an expression runs the first free symbol of the body
\* from that bound (\sum_{0}^{2} 5x is 15 and \prod_{0}^{2} 5x is 0, x bound
\* or not); with no binder and no free symbol in the body the record is
\* ok:false.
C16_LoopVariable ==
    \A c \in SumProdCases :
        IF c.value = <<>> THEN \A r \in Returns(c.notation) : ~r.ok
        ELSE /\ \A r \in Returns(c.notation) : r.ok /\ r.type = "value"
             /\ {r.latex : r \in Returns(c.notation)} = {r.latex : r \in Returns(c.value)}

\* \sum_{0}^{2} 5x answered 15 in a session where x is 5 and n is 1
C16_Witness ==
    /\ call = [op |-> "evaluate", input |-> <<BSL, "s", "u", "m", "_", "{", "0", "}", "^", "{", "2", "}", " ", "5", "x">>]
    /\ result.ok /\ result.latex = latex(Poly(PConst(<<15, 1>>)))
    /\ DOMAIN variables = {<<"x">>, <<"n">>}

(***************************************************************************)
(* The spellings of the arrow of \lim_{v ARROW p} body (lines 183-184,     *)
(* 272-275 and 631-633).                                                   *)
(***************************************************************************)
\* each limit in notation, with its variable, its point and its body
LimitCases ==
    { [notation |-> <<BSL, "l", "i", "m", "_", "{", "x", " ", BSL, "t", "o", " ", "2", "}", " ", "3", "x">>,
       var |-> <<"x">>, point |-> <<"2">>, body |-> <<"3", "x">>],
      [notation |-> <<BSL, "l", "i", "m", "_", "{", "x", " ", BSL, "r", "i", "g", "h", "t", "a", "r", "r", "o", "w", " ", "2", "}", " ", "3", "x">>,
       var |-> <<"x">>, point |-> <<"2">>, body |-> <<"3", "x">>],
      [notation |-> <<BSL, "l", "i", "m", "_", "{", "x", " ", "→", " ", "2", "}", " ", "3", "x">>,
       var |-> <<"x">>, point |-> <<"2">>, body |-> <<"3", "x">>],
      [notation |-> <<BSL, "l", "i", "m", "_", "{", "t", BSL, "t", "o", " ", "1", "}", " ", BSL, "l", "e", "f", "t", "(", "t", " ", "x", BSL, "r", "i", "g", "h", "t", ")">>,
       var |-> <<"t">>, point |-> <<"1">>, body |-> <<"(", "t", " ", "x", ")">>] }

LimitBindingInputs ==
    { <<"x", " ", "=", " ", "5">>,                                \* x = 5
      <<"x", " ", "=", " ", "7">>,                                \* x = 7
      <<"t", " ", "=", " ", "1">>,                                \* t = 1
      <<"t", " ", "=", " ", "3">>,                                \* t = 3
      <<"x">>,                                                    \* x
      <<"t">> }                                                   \* t

LimitInputs == LimitBindingInputs \cup {c.notation : c \in LimitCases}

NextLimit == (\E raw_latex \in LimitInputs : Evaluate(raw_latex)) \/ Clear \/ GetState

SpecLimit == Init /\ [][NextLimit]_vars

\* what the limit handler answers for the variable, the point and the body
\* of c in the current state
LimitHandlerAnswer(c) ==
    Caught(_handle_latex_limit(c.var, c.point, c.body, variables, functions, symbols_cache)).ret

\* C17: in every state, \lim_{v ARROW p} body matches the pattern of the
\* limit notation after preprocessing, and cas_evaluate answers what the
\* limit handler answers for v, p and body, for each spelling \to,
\* \rightarrow and → of the arrow.
C17_ArrowSpellings ==
    \A c \in LimitCases :
        /\ _LATEX_LIM_SUB(_preprocess_latex(c.notation)).m
        /\ Returns(c.notation) = {LimitHandlerAnswer(c)}

(***************************************************************************)
(* Bindings whose bodies mention a variable that is redefined later        *)
(* (lines 891-900 and 1164-1185).                                          *)
(***************************************************************************)
\* each binding, with its name and its body as written
SnapshotCases ==
    { [name |-> <<"y">>, body |-> <<"a", " ", "+", " ", "1">>,
       input |-> <<"y", " ", "=", " ", "a", " ", "+", " ", "1">>],
      [name |-> <<"M">>, body |-> <<BSL, "b", "e", "g", "i", "n", "{", "p", "m", "a", "t", "r", "i", "x", "}", "a", " ", "&", " ", "2", BSL, "e", "n", "d", "{", "p", "m", "a", "t", "r", "i", "x", "}">>,
       input |-> <<"M", " ", "=", " ", BSL, "b", "e", "g", "i", "n", "{", "p", "m", "a", "t", "r", "i", "x", "}", "a", " ", "&", " ", "2", BSL, "e", "n", "d", "{", "p", "m", "a", "t", "r", "i", "x", "}">>] }

RedefinitionInputs ==
    { <<"a", " ", "=", " ", "1">>,                                \* a = 1
      <<"a", " ", "=", " ", "2">>,                                \* a = 2
      <<"a">>,                                                    \* a
      <<"y">>,                                                    \* y
      <<"M">> }                                                   \* M

SnapshotInputs == RedefinitionInputs \cup {c.input : c \in SnapshotCases}

NextSnapshot == (\E raw_latex \in SnapshotInputs : Evaluate(raw_latex)) \/ Clear \/ GetState

SpecSnapshot == Init /\ [][NextSnapshot]_vars

\* C19: no binding is a snapshot.  In every state, a read of a bound name
\* returns what its body as written evaluates to under the bindings of that
\* state, for the scalar y = a + 1 and for the matrix M with an entry a: a
\* redefinition of a changes what later reads of y and of M return.
C19_NoSnapshot ==
    \A c \in SnapshotCases :
        c.name \in DOMAIN variables => Returns(c.name) = Returns(c.body)

(***************************************************************************)
(* Applications and commands with too few or too many arguments (lines     *)
(* 142-166 and 811-842).                                                   *)
(***************************************************************************)
\* each call with the wrong number of arguments, with the user function it
\* applies (none for a command)
ArityCases ==
    { [input |-> <<"f", "(", "1", ",", " ", "2", ")">>, fname |-> <<"f">>],
      [input |-> <<"g", "(", "1", ")">>, fname |-> <<"g">>],
      [input |-> <<"l", "i", "m", "i", "t", "(", "3", "x", ",", " ", "x", ")">>, fname |-> <<>>],
      [input |-> <<"l", "i", "m", "i", "t", "(", "3", "x", ")">>, fname |-> <<>>],
      [input |-> <<"s", "u", "b", "s", "(", "x", ",", " ", "1", ")">>, fname |-> <<>>],
      [input |-> <<"s", "u", "b", "s", "(", "x", ")">>, fname |-> <<>>] }

ArityDefinitionInputs ==
    { <<"f", "(", "x", ")", " ", "=", " ", "x", " ", "+", " ", "1">>,\* f(x) = x + 1
      <<"g", "(", "x", ",", " ", "y", ")", " ", "=", " ", "x", " ", "+", " ", "y">>,\* g(x, y) = x + y
      <<"f", "(", "2", ")">>,                                     \* f(2)
      <<"g", "(", "1", ",", " ", "2", ")">>,                      \* g(1, 2)
      <<"l", "i", "m", "i", "t", "(", "3", "x", ",", " ", "x", ",", " ", "2", ")">>,\* limit(3x, x, 2)
      <<"s", "u", "b", "s", "(", "x", ",", " ", "x", ",", " ", "1", ")">>,\* subs(x, x, 1)
      <<"x", " ", "=", " ", "5">> }                               \* x = 5

ArityInputs == ArityDefinitionInputs \cup {c.input : c \in ArityCases}

NextArity == (\E raw_latex \in ArityInputs : Evaluate(raw_latex)) \/ Clear \/ GetState

SpecArity == Init /\ [][NextArity]_vars

\* C20: in every state, applying a defined function to a number of
\* arguments that is not its number of parameters (f(1, 2) for f(x), g(1)
\* for g(x, y)), and limit or subs with fewer than three arguments, return
\* ok:false.
C20_ArityMismatchFails ==
    \A c \in ArityCases :
        c.fname = <<>> \/ c.fname \in DOMAIN functions =>
            \A r \in Returns(c.input) : ~r.ok

(***************************************************************************)
(* Resolution through a diamond: d = b + c, b = a, c = a (lines 94-117).   *)
(***************************************************************************)
DiamondInputs ==
    { <<"d", " ", "=", " ", "b", " ", "+", " ", "c">>,            \* d = b + c
      <<"b", " ", "=", " ", "a">>,                                \* b = a
      <<"c", " ", "=", " ", "a">>,                                \* c = a
      <<"a", " ", "=", " ", "1">>,                                \* a = 1
      <<"a", " ", "=", " ", "d">>,                                \* a = d
      <<"d">>,                                                    \* d
      <<"a">> }                                                   \* a

NextDiamond == (\E raw_latex \in DiamondInputs : Evaluate(raw_latex)) \/ Clear \/ GetState

SpecDiamond == Init /\ [][NextDiamond]_vars

DiamondNames == {<<"a">>, <<"b">>, <<"c">>, <<"d">>}

\* a binding that lies on a cycle can be reached from name
CycleReachable(V, name) ==
    /\ name \in DOMAIN V
    /\ \E m \in {name} \cup ReachedFrom(V, {name}, {}) : Reaches(V, m, m)

\* C21: in every state, reading a name reports the circular dependency if
\* and only if a cycle can be reached from it through the bindings; in
\* particular d = b + c with b = a and c = a, where a is reached along two
\* paths, reads without error.
C21_CircularIffCycleReachable ==
    \A name \in DiamondNames :
        (Returns(name) = {CircularRecord}) <=> CycleReachable(variables, name)

\* d has just been read without error through the diamond, a being bound
C21_Witness ==
    /\ call = [op |-> "evaluate", input |-> <<"d">>]
    /\ DOMAIN variables = DiamondNames
    /\ ~CycleReachable(variables, <<"d">>)
    /\ result.ok /\ result.latex = latex(Poly(PConst(<<2, 1>>)))

\* the tables T and T1 agree on every name but name
SameButFor(T, T1, name) ==
    /\ DOMAIN T \ {name} = DOMAIN T1 \ {name}
    /\ \A n \in DOMAIN T \ {name} : T1[n] = T[n]

\* the form of each input, and the name it assigns or defines (none for the
\* other forms)
FormOf == [raw_latex \in DispatchInputs |-> FirstForm(raw_latex)]

NamedBy ==
    [raw_latex \in DispatchInputs |->
        CASE FormOf[raw_latex] = "assignment" -> AssignedName(raw_latex)
          [] FormOf[raw_latex] = "function_def" ->
                _ASSIGN_FUNC(Strip(StripBackslashes(_preprocess_latex(raw_latex)))).g1
          [] OTHER -> <<>>]

\* what evaluating raw_latex in the current state leaves of the two tables:
\* both as they are, or the one entry the input names changed
FrameKept(raw_latex, o) ==
    CASE FormOf[raw_latex] = "assignment" ->
            o.functions = functions /\ SameButFor(variables, o.variables, NamedBy[raw_latex])
      [] FormOf[raw_latex] = "function_def" ->
            o.variables = variables /\ SameButFor(functions, o.functions, NamedBy[raw_latex])
      [] OTHER -> o.variables = variables /\ o.functions = functions

\* C22: in every state, an evaluation handled as a named command, a
\* big-operator notation, a matrix literal, an equation or a plain
\* expression leaves the variable table and the function table as they
\* are; a variable or matrix assignment changes at most the entry of its
\* name in the variable table, and a function definition at most the entry
\* of its name in the function table.
C22_ResolutionKeepsTables ==
    \A c \in DispatchCases, ord \in SetOrders :
        FrameKept(c.input, cas_evaluate(c.input, variables, functions, symbols_cache, ord))

\* the plain expression y has just been read in a session that holds the
\* variables y and M and the function f, and all three are still there
C22_Witness ==
    /\ call = [op |-> "evaluate", input |-> <<"y">>]
    /\ result.ok /\ result.type = "value"
    /\ DOMAIN variables = {<<"y">>, <<"M">>}
    /\ DOMAIN functions = {<<"f">>}

(***************************************************************************)
(* The operation variable in what resolution brings in (lines 94-166).     *)
(***************************************************************************)
\* each command on an expression that reaches x through a variable or a
\* function, with the same command on the expression written out
ExclusionCases ==
    { [command |-> <<"d", "i", "f", "f", "(", "y", ",", " ", "x", ")">>,
       direct |-> <<"d", "i", "f", "f", "(", "x", "^", "2", ",", " ", "x", ")">>,
       variable |-> <<"y">>, function |-> <<>>],
      [command |-> <<"d", "i", "f", "f", "(", "f", "(", "1", ")", ",", " ", "x", ")">>,
       direct |-> <<"d", "i", "f", "f", "(", "1", " ", "+", " ", "x", "^", "2", ",", " ", "x", ")">>,
       variable |-> <<>>, function |-> <<"f">>] }

ExclusionBindingInputs ==
    { <<"x", " ", "=", " ", "5">>,                                \* x = 5
      <<"x", " ", "=", " ", "7">>,                                \* x = 7
      <<"y", " ", "=", " ", "x", "^", "2">>,                      \* y = x^2
      <<"f", "(", "t", ")", " ", "=", " ", "t", " ", "+", " ", "x", "^", "2">>,\* f(t) = t + x^2
      <<"x">>,                                                    \* x
      <<"y">> }                                                   \* y

ExclusionInputs == ExclusionBindingInputs \cup {c.command : c \in ExclusionCases}

NextExclusion == (\E raw_latex \in ExclusionInputs : Evaluate(raw_latex)) \/ Clear \/ GetState

SpecExclusion == Init /\ [][NextExclusion]_vars

\* the variable or the function through which the expression of c reaches x
\* is defined
Introduced(c) ==
    \/ c.variable # <<>> /\ c.variable \in DOMAIN variables
    \/ c.function # <<>> /\ c.function \in DOMAIN functions

\* C23: in every state where x is bound, a command with operation variable
\* x whose expression reaches x through a variable (y = x^2) or through a
\* user function (f(t) = t + x^2) returns what it returns on the expression
\* written out in a session with no bindings: the x brought in by
\* resolution is kept (diff(y, x) is 2x, not the derivative of 25).
C23_ExclusionCoversIntroduced ==
    \A c \in ExclusionCases :
        <<"x">> \in DOMAIN variables /\ Introduced(c) =>
            Returns(c.command) = ReturnsUnbound(c.direct)

(***************************************************************************)
(* Bound names in the bounds and points of commands and big operators      *)
(* (lines 796-819, 1070-1141).                                             *)
(***************************************************************************)
\* each command with the name a in a bound or in the point, the value bound
\* to a, and the command with that value written in the place of a
BoundCases ==
    { [command |-> <<BSL, "i", "n", "t", "_", "{", "0", "}", "^", "{", "a", "}", " ", "x">>,
       value |-> 2,
       direct |-> <<BSL, "i", "n", "t", "_", "{", "0", "}", "^", "{", "2", "}", " ", "x">>],
      [command |-> <<BSL, "s", "u", "m", "_", "{", "n", "=", "1", "}", "^", "{", "a", "}", " ", "n">>,
       value |-> 2,
       direct |-> <<BSL, "s", "u", "m", "_", "{", "n", "=", "1", "}", "^", "{", "2", "}", " ", "n">>],
      [command |-> <<BSL, "l", "i", "m", "_", "{", "x", " ", BSL, "t", "o", " ", "a", "}", " ", "x">>,
       value |-> 2,
       direct |-> <<BSL, "l", "i", "m", "_", "{", "x", " ", BSL, "t", "o", " ", "2", "}", " ", "x">>],
      [command |-> <<"i", "n", "t", "e", "g", "r", "a", "t", "e", "(", "x", ",", " ", "x", ",", " ", "0", ",", " ", "a", ")">>,
       value |-> 2,
       direct |-> <<"i", "n", "t", "e", "g", "r", "a", "t", "e", "(", "x", ",", " ", "x", ",", " ", "0", ",", " ", "2", ")">>],
      [command |-> <<"l", "i", "m", "i", "t", "(", "x", ",", " ", "x", ",", " ", "a", ")">>,
       value |-> 2,
       direct |-> <<"l", "i", "m", "i", "t", "(", "x", ",", " ", "x", ",", " ", "2", ")">>],
      [command |-> <<BSL, "i", "n", "t", "_", "{", "0", "}", "^", "{", "a", "}", " ", "x">>,
       value |-> 3,
       direct |-> <<BSL, "i", "n", "t", "_", "{", "0", "}", "^", "{", "3", "}", " ", "x">>],
      [command |-> <<BSL, "s", "u", "m", "_", "{", "n", "=", "1", "}", "^", "{", "a", "}", " ", "n">>,
       value |-> 3,
       direct |-> <<BSL, "s", "u", "m", "_", "{", "n", "=", "1", "}", "^", "{", "3", "}", " ", "n">>],
      [command |-> <<BSL, "l", "i", "m", "_", "{", "x", " ", BSL, "t", "o", " ", "a", "}", " ", "x">>,
       value |-> 3,
       direct |-> <<BSL, "l", "i", "m", "_", "{", "x", " ", BSL, "t", "o", " ", "3", "}", " ", "x">>],
      [command |-> <<"i", "n", "t", "e", "g", "r", "a", "t", "e", "(", "x", ",", " ", "x", ",", " ", "0", ",", " ", "a", ")">>,
       value |-> 3,
       direct |-> <<"i", "n", "t", "e", "g", "r", "a", "t", "e", "(", "x", ",", " ", "x", ",", " ", "0", ",", " ", "3", ")">>],
      [command |-> <<"l", "i", "m", "i", "t", "(", "x", ",", " ", "x", ",", " ", "a", ")">>,
       value |-> 3,
       direct |-> <<"l", "i", "m", "i", "t", "(", "x", ",", " ", "x", ",", " ", "3", ")">>] }

BoundBindingInputs ==
    { <<"a", " ", "=", " ", "2">>,                                \* a = 2
      <<"a", " ", "=", " ", "3">>,                                \* a = 3
      <<"x", " ", "=", " ", "7">>,                                \* x = 7
      <<"a">> }                                                   \* a

BoundInputs == BoundBindingInputs \cup {c.command : c \in BoundCases}

NextBound == (\E raw_latex \in BoundInputs : Evaluate(raw_latex)) \/ Clear \/ GetState

SpecBound == Init /\ [][NextBound]_vars

\* what each command returns with the value written in the place of a
WrittenOut == [c \in BoundCases |-> {Answer(r) : r \in ReturnsUnbound(c.direct)}]

\* the name a is bound to the value of c
BoundToValue(c) ==
    /\ <<"a">> \in DOMAIN variables
    /\ variables[<<"a">>].expr = <<"num", c.value, 1>>

\* C24: in every state where a is bound to 2 or to 3, a command or big
\* operator with a in an integration bound, in a sum bound or in a limit
\* point answers what it answers with the value written in the place of a
\* (a = 2; \int_{0}^{a} x answers 2).
C24_BoundsResolved ==
    \A c \in BoundCases :
        BoundToValue(c) => {Answer(r) : r \in Returns(c.command)} = WrittenOut[c]

(***************************************************************************)
(* The recorded dependencies of the bindings (lines 891-900, 1164-1222).   *)
(***************************************************************************)
DepsInputs ==
    { <<"x", " ", "=", " ", "2">>,                                \* x = 2
      <<"y", " ", "=", " ", "x", " ", "+", " ", "1">>,            \* y = x + 1
      <<"y", " ", "=", " ", "3">>,                                \* y = 3
      <<"f", "(", "t", ")", " ", "=", " ", "t", " ", "+", " ", "x">>,\* f(t) = t + x
      <<"M", " ", "=", " ", BSL, "b", "e", "g", "i", "n", "{", "p", "m", "a", "t", "r", "i", "x", "}", "1", " ", "&", " ", "x", BSL, "e", "n", "d", "{", "p", "m", "a", "t", "r", "i", "x", "}">>,\* M = \begin{pmatrix}1 & x\end{pmatrix}
      <<"M", " ", "=", " ", BSL, "b", "e", "g", "i", "n", "{", "p", "m", "a", "t", "r", "i", "x", "}", "1", " ", "&", " ", "2", BSL, "e", "n", "d", "{", "p", "m", "a", "t", "r", "i", "x", "}">>,\* M = \begin{pmatrix}1 & 2\end{pmatrix}
      <<"y">> }                                                   \* y

NextDeps == (\E raw_latex \in DepsInputs : Evaluate(raw_latex)) \/ Clear \/ GetState

SpecDeps == Init /\ [][NextDeps]_vars

\* the deps of each variable of V are the free symbol names of its body
VariableDepsOfBody(V) ==
    \A name \in DOMAIN V : V[name].deps = _free_names(V[name].expr)

\* the deps of each function of F are the free symbol names of its body
\* that are not parameters
FunctionDepsOfBody(F) ==
    \A fname \in DOMAIN F :
        F[fname].deps = _free_names(F[fname].expr) \ Range(F[fname].params)

\* cas_get_state reports the free symbol names of the bodies
ReportsDepsOfBody(V, F) ==
    /\ \A name \in DOMAIN V :
          cas_get_state(V, F).variables[name].deps = _free_names(V[name].expr)
    /\ \A fname \in DOMAIN F :
          cas_get_state(V, F).functions[fname].deps =
              _free_names(F[fname].expr) \ Range(F[fname].params)

\* C25: in every reachable state the deps of each variable binding, matrix
\* bindings included, are the free symbol names of its stored body, the
\* deps of each function binding are the free symbol names of its body
\* minus its parameters, and cas_get_state reports exactly these sets.
C25_DepsAreFreeNames ==
    /\ VariableDepsOfBody(variables)
    /\ FunctionDepsOfBody(functions)
    /\ ReportsDepsOfBody(variables, functions)

(***************************************************************************)
(* The tables after a call that returns ok:false (lines 583-599,           *)
(* 1164-1185), in the sessions of SpecCycle.                               *)
(***************************************************************************)
\* the call that ended in the outcome o failed and left both tables as
\* they are in the current state
FailureKeeps(o) ==
    ~o.ret.ok => o.variables = variables /\ o.functions = functions

\* C26: in every state, an evaluation that returns ok:false, the assignment
\* that fails with a circular dependency error included (q = p + 1 after
\* p = q + 1, r = r + 1), leaves the variable table and the function table
\* as they were before the call.
C26_FailureKeepsTables ==
    \A raw_latex \in CycleInputs, ord \in SetOrders :
        FailureKeeps(cas_evaluate(raw_latex, variables, functions, symbols_cache, ord))

(***************************************************************************)
(* Termination of a call that expands user functions (lines 142-166,       *)
(* 583-599).  The expansion is followed level by level: call holds the     *)
(* expression being expanded and the nesting depth of the running call.    *)
(***************************************************************************)
RecursionDefinitionInputs ==
    { <<"f", "(", "x", ")", " ", "=", " ", "f", "(", "x", "-", "1", ")", "+", "1">>,\* f(x) = f(x-1)+1
      <<"f", "(", "x", ")", " ", "=", " ", "g", "(", "x", ")">>,  \* f(x) = g(x)
      <<"g", "(", "x", ")", " ", "=", " ", "f", "(", "x", ")">> } \* g(x) = f(x)

ApplicationInputs ==
    { <<"f", "(", "1", ")">>,                                     \* f(1)
      <<"g", "(", "1", ")">> }                                    \* g(1)

\* the user functions that the body of fname applies with their arity
RECURSIVE AppliedIn(_, _)
AppliedIn(F, e) ==
    CASE Tag(e) = "app" ->
            (IF e[2] \in DOMAIN F /\ Len(e[3]) = Len(F[e[2]].params) THEN {e[2]} ELSE {})
                \cup UNION {AppliedIn(F, e[3][k]) : k \in 1..Len(e[3])}
      [] Tag(e) \in {"add", "mul", "div", "pow", "eq"} ->
            AppliedIn(F, e[2]) \cup AppliedIn(F, e[3])
      [] Tag(e) = "neg" -> AppliedIn(F, e[2])
      [] OTHER -> {}

\* the functions reached from those of S through at most n bodies
RECURSIVE FunctionsFrom(_, _, _)
FunctionsFrom(F, S, n) ==
    IF n = 0 THEN S
    ELSE FunctionsFrom(F, S \cup UNION {AppliedIn(F, F[g].expr) : g \in S}, n - 1)

\* fname is defined and its expansion meets a function that applies itself,
\* directly or through others
ReachesRecursion(F, fname) ==
    /\ fname \in DOMAIN F
    /\ \E g \in FunctionsFrom(F, {fname}, Cardinality(DOMAIN F)) :
          g \in FunctionsFrom(F, AppliedIn(F, F[g].expr), Cardinality(DOMAIN F))

\* lines 146-159, one level: each application of a user function with its
\* arity replaced by the body with the arguments in the place of the
\* parameters
RECURSIVE Unfold(_, _)
Unfold(F, e) ==
    IF Tag(e) = "app" /\ e[2] \in DOMAIN F /\ Len(e[3]) = Len(F[e[2]].params)
    THEN SubsDict(F[e[2]].expr, ZipDict(F[e[2]].params, e[3]))
    ELSE IF Tag(e) \in {"add", "mul", "div", "pow", "eq"}
    THEN <<Tag(e), Unfold(F, e[2]), Unfold(F, e[3])>>
    ELSE IF Tag(e) = "neg" THEN <<"neg", Unfold(F, e[2])>>
    ELSE IF Tag(e) = "app"
    THEN <<"app", e[2], [k \in 1..Len(e[3]) |-> Unfold(F, e[3][k])]>>
    ELSE e

\* no call of cas_evaluate is running
Idle == call.op # "running"

\* the running call with its position moved on
At(stage, depth, expr, res, value) ==
    [op |-> "running", input |-> call.input, cached |-> call.cached,
     parsed |-> call.parsed, stage |-> stage, depth |-> depth, expr |-> expr, res |-> res, value |-> value]

\* cas_evaluate(raw_latex) entered: the text parsed and its names cached
\* (lines 538-548, 680), nothing expanded yet
Begin(raw_latex) ==
    /\ Idle
    /\ Parse(raw_latex, variables, functions, symbols_cache).r.ok
    /\ call' = [op |-> "running", input |-> raw_latex,
                cached |-> Parse(raw_latex, variables, functions, symbols_cache).C,
                parsed |-> Parse(raw_latex, variables, functions, symbols_cache).r.val,
                stage |-> "expanding", depth |-> 0,
                expr |-> Parse(raw_latex, variables, functions, symbols_cache).r.val,
                res |-> <<>>, value |-> <<>>]
    /\ UNCHANGED <<variables, functions, symbols_cache, result>>

\* lines 156-159: one more nested call of _apply_user_functions
Step ==
    /\ call.op = "running" /\ call.stage = "expanding"
    /\ AppliedIn(functions, call.expr) # {}
    /\ call.depth < MaxExpansionDepth
    /\ call' = At("expanding", call.depth + 1, Unfold(functions, call.expr), <<>>, <<>>)
    /\ UNCHANGED <<variables, functions, symbols_cache, result>>

\* a recursion limit that starts the expansion again instead of raising
OverflowRestarts ==
    /\ call.op = "running" /\ call.stage = "expanding"
    /\ AppliedIn(functions, call.expr) # {}
    /\ call.depth >= MaxExpansionDepth
    /\ call' = At("expanding", 0, call.parsed, <<>>, <<>>)
    /\ UNCHANGED <<variables, functions, symbols_cache, result>>

\* the interpreter raises RecursionError at its limit and cas_evaluate
\* (lines 596-599) turns it into the ok:false record
Overflow ==
    /\ call.op = "running" /\ call.stage = "expanding"
    /\ AppliedIn(functions, call.expr) # {}
    /\ call.depth >= MaxExpansionDepth
    /\ Evaluated(call.input,
                 Caught(Outcome(Raise(RecursionErr), variables, functions, call.cached)))

\* nothing left to expand: the variables of the value resolved (line 681)
Resolve ==
    /\ call.op = "running" /\ call.stage = "expanding"
    /\ AppliedIn(functions, call.expr) = {}
    /\ call' = At("resolved", call.depth, call.expr,
                  _resolve_expr(variables, functions, call.expr, {}, 0), <<>>)
    /\ UNCHANGED <<variables, functions, symbols_cache, result>>

\* the call is at line 687 with a value to simplify
AtSimplify ==
    /\ call.op = "running" /\ call.stage = "resolved"
    /\ call.res.ok /\ ~IsMatrix(call.res.val)

\* line 687
Simplify ==
    /\ AtSimplify
    /\ call' = At("simplified", call.depth, call.expr, call.res, simplify(call.res.val))
    /\ UNCHANGED <<variables, functions, symbols_cache, result>>

\* the record returned: the exception of the resolver caught (lines
\* 596-599), a matrix rendered (lines 684-685), a value rendered (line 701)
Finish ==
    /\ call.op = "running"
    /\ \/ call.stage = "resolved" /\ (~call.res.ok \/ IsMatrix(call.res.val))
       \/ call.stage = "simplified"
    /\ Evaluated(call.input,
                 Caught(IF call.stage = "resolved"
                        THEN PlainResolved(variables, functions, call.cached, call.res)
                        ELSE Outcome(Return(_make_result(call.value, "value", FALSE, NoExtra)),
                                     variables, functions, call.cached)))

NextRecursion ==
    \/ \E raw_latex \in RecursionDefinitionInputs : Idle /\ Evaluate(raw_latex)
    \/ \E raw_latex \in ApplicationInputs : Begin(raw_latex)
    \/ Step
    \/ Overflow
    \/ Resolve
    \/ Simplify
    \/ Finish
    \/ Idle /\ Clear
    \/ Idle /\ GetState

SpecRecursion == Init /\ [][NextRecursion]_vars

\* a call that has been entered keeps running until it returns: weak
\* fairness of each of its steps.  That of Simplify is written out, Simplify
\* being enabled exactly where AtSimplify holds (simplify is total and the
\* step moves the call on).
SpecRecursionLive ==
    /\ SpecRecursion
    /\ WF_vars(Step) /\ WF_vars(Overflow) /\ WF_vars(Resolve) /\ WF_vars(Finish)
    /\ ([]<>(~AtSimplify) \/ []<><<Simplify>>_vars)

RecursionRecord == [ok |-> FALSE, error |-> RecursionErr]

\* r has the shape of a record of cas_evaluate
IsRecord(r) ==
    /\ "ok" \in DOMAIN r
    /\ IF r.ok THEN {"latex", "plain", "type"} \subseteq DOMAIN r
       ELSE DOMAIN r = {"ok", "error"}

\* the call of an application has returned
Returned == call.op = "evaluate" /\ call.input \in ApplicationInputs

\* the function that the input applies
FunctionOf(raw_latex) == <<raw_latex[1]>>

ReturnsRecord == Returned => IsRecord(result)

RecursiveFails ==
    Returned /\ ReachesRecursion(functions, FunctionOf(call.input)) => result = RecursionRecord

SameAsEvaluate == Returned => result \in Returns(call.input)

\* C27: every call of cas_evaluate that has been entered returns, and what
\* it returns is a record, the one cas_evaluate computes; the application
\* of a user function whose definition is directly or mutually recursive
\* (f(x) = f(x-1)+1 with f a function, f through g and g through f) returns
\* the ok:false record of the recursion limit.
C27_EveryCallReturns ==
    /\ (call.op = "running") ~> (call.op = "evaluate")
    /\ []ReturnsRecord
    /\ []RecursiveFails
    /\ []SameAsEvaluate

C27_Witness ==
    /\ Returned
    /\ call.input = <<"g", "(", "1", ")">>
    /\ {<<"f">>, <<"g">>} \subseteq DOMAIN functions
    /\ <<"g">> \in AppliedIn(functions, functions[<<"f">>].expr)
    /\ <<"f">> \in AppliedIn(functions, functions[<<"g">>].expr)
    /\ result = RecursionRecord

(***************************************************************************)
(* The operation variable inferred as the first free symbol (lines         *)
(* 763-801, 1079-1087, 1113-1119).                                         *)
(***************************************************************************)
\* commands and big operators without an operation variable, on a body
\* with the two free symbols a and b
InferredCases ==
    { <<BSL, "s", "u", "m", "_", "{", "1", "}", "^", "{", "3", "}", " ", "a", " ", "b">>,\* \sum_{1}^{3} a b
      <<BSL, "p", "r", "o", "d", "_", "{", "1", "}", "^", "{", "3", "}", " ", "a", " ", "b">>,\* \prod_{1}^{3} a b
      <<BSL, "i", "n", "t", "_", "{", "0", "}", "^", "{", "1", "}", " ", "a", " ", "b">>,\* \int_{0}^{1} a b
      <<"d", "i", "f", "f", "(", "a", " ", "b", ")">>,            \* diff(a b)
      <<"i", "n", "t", "e", "g", "r", "a", "t", "e", "(", "a", " ", "b", ")">>,\* integrate(a b)
      <<"s", "o", "l", "v", "e", "(", "a", " ", "-", " ", "b", ")">> }\* solve(a - b)

InferredBindingInputs ==
    { <<"a", " ", "=", " ", "2">>,                                \* a = 2
      <<"a", " ", "=", " ", "3">>,                                \* a = 3
      <<"b", " ", "=", " ", "3">>,                                \* b = 3
      <<"a">>,                                                    \* a
      <<"b">> }                                                   \* b

InferredInputs == InferredBindingInputs \cup InferredCases

NextInferred == (\E raw_latex \in InferredInputs : Evaluate(raw_latex)) \/ Clear \/ GetState

SpecInferred == Init /\ [][NextInferred]_vars

\* C28: in every state, each command or big operator that infers its
\* operation variable from a body with two free symbols returns one and the
\* same record whichever way the set of free symbols is iterated: the
\* record is a function of the state and the input.
C28_SameVariableInEveryRun ==
    \A raw_latex \in InferredCases : Cardinality(Returns(raw_latex)) = 1

(***************************************************************************)
(* The body of a function definition with a LaTeX command (lines 607-663,  *)
(* 1188-1200, 508-555).                                                    *)
(***************************************************************************)
\* definitions of f with a body that holds \frac, and the body
FunctionBodyCases ==
    { [definition |-> <<"f", "(", "x", ")", " ", "=", " ", BSL, "f", "r", "a", "c", "{", "x", "}", "{", "2", "}">>,
       body |-> <<BSL, "f", "r", "a", "c", "{", "x", "}", "{", "2", "}">>],
      [definition |-> <<"f", "(", "x", ")", " ", "=", " ", BSL, "f", "r", "a", "c", "{", "x", " ", "+", " ", "1", "}", "{", "3", "}">>,
       body |-> <<BSL, "f", "r", "a", "c", "{", "x", " ", "+", " ", "1", "}", "{", "3", "}">>] }

FunctionBodyInputs ==
    { <<"f", "(", "x", ")", " ", "=", " ", "x", " ", "+", " ", "1">>,\* f(x) = x + 1
      <<"y", " ", "=", " ", BSL, "f", "r", "a", "c", "{", "x", "}", "{", "2", "}">>,\* y = \frac{x}{2}
      <<"x", " ", "=", " ", "4">>,                                \* x = 4
      <<"f", "(", "x", ")">>,                                     \* f(x)
      <<"y">> }                                                   \* y

FunctionBodySession ==
    FunctionBodyInputs \cup {c.definition : c \in FunctionBodyCases}
        \cup {c.body : c \in FunctionBodyCases}

NextFunctionBody ==
    (\E raw_latex \in FunctionBodySession : Evaluate(raw_latex)) \/ Clear \/ GetState

SpecFunctionBody == Init /\ [][NextFunctionBody]_vars

\* C29: after a definition f(x) = B whose body B holds \frac, with x
\* unbound, the application f(x) answers what B answers: the body is parsed
\* from the text as typed, as the body of an assignment is.
C29_FunctionBodyAsTyped ==
    \A c \in FunctionBodyCases :
        call.op = "evaluate" /\ call.input = c.definition /\ <<"x">> \notin DOMAIN variables =>
            {Answer(r) : r \in Returns(<<"f", "(", "x", ")">>)}
                = {Answer(r) : r \in Returns(c.body)}

(***************************************************************************)
(* Two calls at once (lines 75-83, 94-139, 1164-1185).  The tables are     *)
(* module-level dictionaries and no call takes a lock.  A read is followed *)
(* table read by table read: call holds the stack of the resolver's        *)
(* frames, each with the body it has read, the free symbols it has still   *)
(* to look up and the values it has got.  An assignment by another call    *)
(* can come between two reads; its one store (line 1179) is a step.        *)
(* No function is defined in these sessions.                               *)
(***************************************************************************)
SharedSetupInputs ==
    { <<"d", " ", "=", " ", "b", " ", "+", " ", "c">>,            \* d = b + c
      <<"b", " ", "=", " ", "a">>,                                \* b = a
      <<"c", " ", "=", " ", "a">>,                                \* c = a
      <<"a", " ", "=", " ", "1">>,                                \* a = 1
      <<"a", " ", "=", " ", "2">> }                               \* a = 2

SharedReadInputs ==
    { <<"d">> }                                                   \* d

SharedWriteInputs ==
    { <<"a", " ", "=", " ", "1">>,                                \* a = 1
      <<"a", " ", "=", " ", "2">> }                               \* a = 2

\* no read is in progress
NoRead == call.op # "reading"

\* what the table V holds for a: its body, or the symbol when unbound
BodyOfA(V) == IF <<"a">> \in DOMAIN V THEN V[<<"a">>].expr ELSE Sym(<<"a">>)

Frame(name, expr) ==
    [name |-> name, expr |-> expr, todo |-> free_symbols(expr), subs |-> << >>]

\* the names of the frames: visited (lines 99-103)
OnStack(stack) == {stack[k].name : k \in 1..Len(stack)}

Top(stack) == stack[Len(stack)]

\* the stack with its top frame replaced
WithTop(stack, frame) == [stack EXCEPT ![Len(stack)] = frame]

\* line 680 and lines 128-132: the text parsed, its functions applied, the
\* loop over the free symbols of the expression about to start
BeginRead(raw_latex) ==
    /\ NoRead
    /\ LET parse == Parse(raw_latex, variables, functions, symbols_cache)
           expr  == _apply_user_functions(variables, functions, parse.r.val, 0)
       IN  /\ parse.r.ok
           /\ expr.ok
           /\ call' = [op |-> "reading", input |-> raw_latex,
                       stack |-> << Frame(<<>>, expr.val) >>,
                       seen |-> {BodyOfA(variables)}]
           /\ symbols_cache' = parse.C
    /\ UNCHANGED <<variables, functions, result>>

\* the read has returned the record ret
ReadReturns(ret) ==
    /\ call' = [op |-> "read", input |-> call.input, seen |-> call.seen]
    /\ result' = ret
    /\ UNCHANGED <<variables, functions, symbols_cache>>

\* a lookup that takes a bound name for unbound: the symbol is left in
LookupMissesBound ==
    /\ call.op = "reading"
    /\ Top(call.stack).todo # {}
    /\ \E ord \in SetOrders :
          LET top == Top(call.stack)
              sn  == First(top.todo, ord)
          IN  /\ call' = [call EXCEPT !.stack = WithTop(call.stack, [top EXCEPT !.todo = @ \ {sn}])]
              /\ UNCHANGED <<variables, functions, symbols_cache, result>>

\* lines 107-110 and 133-136, one turn of the loop: the next free symbol
\* looked up in the table; when bound, _resolve_variable entered (lines
\* 99-106): the circular dependency raised, or the body read
Lookup ==
    /\ call.op = "reading"
    /\ Top(call.stack).todo # {}
    /\ \E ord \in SetOrders :
          LET top  == Top(call.stack)
              sn   == First(top.todo, ord)
              rest == WithTop(call.stack, [top EXCEPT !.todo = @ \ {sn}])
          IN  IF sn \notin DOMAIN variables
              THEN /\ call' = [call EXCEPT !.stack = rest]
                   /\ UNCHANGED <<variables, functions, symbols_cache, result>>
              ELSE IF sn \in OnStack(call.stack)
              THEN ReadReturns(CircularRecord)
              ELSE /\ call' = [call EXCEPT !.stack = Append(rest, Frame(sn, variables[sn].expr))]
                   /\ UNCHANGED <<variables, functions, symbols_cache, result>>

\* lines 111-113 and 137-139: the loop over, the values substituted, and
\* the expression returned to the caller; from the outermost frame, the
\* value simplified and rendered (lines 687-701)
Substitute ==
    /\ call.op = "reading"
    /\ Top(call.stack).todo = {}
    /\ LET top   == Top(call.stack)
           value == SubsDict(top.expr, top.subs)
           below == SubSeq(call.stack, 1, Len(call.stack) - 1)
       IN  IF Len(call.stack) = 1
           THEN ReadReturns(Caught(PlainResolved(variables, functions, symbols_cache,
                                                 Return(value))).ret)
           ELSE /\ call' = [call EXCEPT !.stack =
                               WithTop(below, [Top(below) EXCEPT !.subs = Put(@, top.name, value)])]
                /\ UNCHANGED <<variables, functions, symbols_cache, result>>

\* the tables after another call, which ended in the outcome o, came in
\* between two steps of the read; its record goes to its own caller
Written(o) ==
    /\ variables' = o.variables
    /\ functions' = o.functions
    /\ symbols_cache' = o.symbols_cache
    /\ call' = [call EXCEPT !.seen = @ \cup {BodyOfA(o.variables)}]
    /\ UNCHANGED result

\* a whole call of cas_evaluate(raw_latex): with no read in progress it is
\* Evaluate; between two steps of the read it is another call, an
\* assignment of a, coming in
Write(raw_latex) ==
    /\ NoRead => raw_latex \in SharedSetupInputs
    /\ ~NoRead => raw_latex \in SharedWriteInputs
    /\ \E ord \in SetOrders :
          \E o \in {cas_evaluate(raw_latex, variables, functions, symbols_cache, ord)} :
              IF NoRead THEN Evaluated(raw_latex, o) ELSE Written(o)

NextShared ==
    \/ \E raw_latex \in SharedSetupInputs \cup SharedWriteInputs : Write(raw_latex)
    \/ \E raw_latex \in SharedReadInputs : BeginRead(raw_latex)
    \/ Lookup
    \/ Substitute
    \/ NoRead /\ Clear
    \/ NoRead /\ GetState

SpecShared == Init /\ [][NextShared]_vars

\* a read followed step by step has returned
ReadReturned == call.op = "read"

\* b, c and d are bound (to a, a and b + c: the only bodies of the session)
DiamondDefined == {<<"b">>, <<"c">>, <<"d">>} \subseteq DOMAIN variables

\* the record of a read of d that finds the body x of a through b and the
\* body y of a through c
ReadOfSum(x, y) ==
    Caught(PlainResolved(variables, functions, symbols_cache, Return(<<"add", x, y>>))).ret

\* C30: a read that no other call came into (the table held one body of a
\* from its first step to its last) returns what cas_evaluate returns in
\* that state; a read of d (d = b + c, b = a, c = a) that assignments of a
\* came into returns b + c with b and c each at a body a had during the
\* read, which may be two different ones: a value consistent with neither
\* the old nor the new a.
C30_ReadsUnderInterleaving ==
    /\ ReadReturned /\ Cardinality(call.seen) = 1 => result \in Returns(call.input)
    /\ ReadReturned /\ DiamondDefined =>
          result \in {ReadOfSum(x, y) : x, y \in call.seen}

C30_Witness ==
    /\ ReadReturned /\ DiamondDefined
    /\ call.seen = {Num(1), Num(2)}
    /\ result = ReadOfSum(Num(1), Num(2))
    /\ result \notin {ReadOfSum(x, x) : x \in call.seen}

====
